---- MODULE Spec2Model ----
(***************************************************************************)
(* FamilyCom daemon: the store facade (familycom-core/src/db.rs), the      *)
(* discovery adapter (familycomd/src/discovery.rs), the inbound server     *)
(* (familycomd/src/server.rs), the outbound client                         *)
(* (familycomd/src/client.rs), the control server                          *)
(* (familycomd/src/ipc_server.rs) and the daemon core                      *)
(* (familycomd/src/app.rs).                                                *)
(***************************************************************************)
EXTENDS Integers, Sequences, FiniteSets, TLC

\* ------------------------------------------------------------------------
\* Bounds of the exploration
\* ------------------------------------------------------------------------
MaxStoreOps  == 4     \* SpecStore: store calls
MaxMdns      == 3     \* SpecDiscovery: raw mDNS browse events
MaxInputs    == 3     \* Spec: raw mDNS events, inbound frames and control lines, in total
MaxSendMdns  == 1     \* SpecSend: raw mDNS browse events
MaxReqs      == 2     \* SpecSend: control lines read, all clients
MaxFrames    == 2     \* SpecInbound: frames read on inbound connections
MaxSubs      == 2     \* SpecInbound: control lines read, all clients
MaxBusFrames == 258   \* SpecBus: frames read on inbound connections

\* ------------------------------------------------------------------------
\* Program constants
\* ------------------------------------------------------------------------
MAX_LENGTH           == 10000   \* MessageContent::MAX_LENGTH
BUS_CAPACITY         == 256     \* broadcast::channel(256)
DISCOVERY_CAPACITY   == 64      \* mpsc::channel::<DiscoveryEvent>(64)
MESSAGE_CAPACITY     == 256     \* mpsc::channel(256) for IncomingMessage
IPC_REQUEST_CAPACITY == 64      \* mpsc::channel(64) for IpcRequest
RESPONSE_CAPACITY    == 32      \* mpsc::channel::<ServerMessage>(32)

\* ------------------------------------------------------------------------
\* Value domains
\* ------------------------------------------------------------------------
\* Option<T>: None is the empty sequence, Some(v) a one-element sequence.
NoneOpt == <<>>
Some(v) == <<v>>
IsSome(o) == Len(o) = 1
Unwrap(o) == o[1]

LocalPeerId   == "aaa"                    \* config.peer_id of this daemon
LocalName     == <<"S", "a", "l", "a">>   \* config.display_name
RemotePeerIds == {"bbb", "ccc"}
PeerIds       == {LocalPeerId} \cup RemotePeerIds
MsgIds        == 1 .. 3                   \* message identities (UUIDs)
Labels        == {"Cocina._familycom._tcp.local.", "Patio._familycom._tcp.local."}
Clients       == {1, 2}                   \* control connections
Port          == 9876

\* Strings whose bytes matter are sequences of characters, of one byte each
\* but for Enie, whose UTF-8 encoding has two.
Enie      == "U+00F1"
Hola      == <<"H", "o", "l", "a">>
Adios     == <<"A", "d", "i", "o", "s">>
Blank     == <<" ", " ">>
Contents  == {Hola, Adios, Blank}
Timestamps == {1000}

\* Address lists an mDNS resolution can carry, before filtering.
LinkLocal6 == "fe80::1"
AddrLists  == { <<LinkLocal6>>, <<LinkLocal6, "10.0.0.2">>, <<"10.0.0.2", "10.0.0.3">> }
RemoteAddrs == {<<"10.0.0.2", 50000>>}     \* remote ends of inbound connections
Conns       == {1, 2}                      \* inbound peer connections
Cocina      == <<"C", "o", "c">>
Salon       == <<" ", "S", "a", "l", "o", "n">>

\* Two daemons that send to each other, and the state of a connection one
\* makes to the other: not made, made and waiting in the listener's backlog,
\* accepted (its handler running); dropped: the side that made it dropped it.
\*   rx: the frames written to it that its handler has not read
\*   tx: the frames its handler wrote that the other side has not read
Duellists    == {"aaa", "bbb"}
NoConnection == [state |-> "none", dropped |-> FALSE, rx |-> <<>>, tx |-> <<>>]

\* ------------------------------------------------------------------------
\* Helpers on sequences and sets
\* ------------------------------------------------------------------------
Range(s) == {s[i] : i \in 1 .. Len(s)}

\* ------------------------------------------------------------------------
\* Store: familycom-core/src/db.rs
\*   peers    : the peers table, a function from the stored ids to rows
\*   messages : the messages table, a set of rows
\* ------------------------------------------------------------------------

\* Database::upsert_peer: INSERT OR REPLACE by primary key id.
upsert_peer(prs, peer) ==
    [p \in (DOMAIN prs) \cup {peer.id} |->
        IF p = peer.id
        THEN [id |-> peer.id, display_name |-> peer.display_name,
              last_seen_at |-> peer.last_seen_at, addresses |-> peer.addresses]
        ELSE prs[p]]

\* Database::get_peers: every stored peer, online always false.
get_peers(prs) ==
    {[id |-> prs[p].id, display_name |-> prs[p].display_name,
      addresses |-> prs[p].addresses, last_seen_at |-> prs[p].last_seen_at,
      online |-> FALSE] : p \in DOMAIN prs}

\* A save_message that inserts without the primary-key check.
save_message_nopk(msgs, prs, msg) ==
    IF msg.peer_id \notin DOMAIN prs
    THEN [ok |-> FALSE, messages |-> msgs]
    ELSE [ok |-> TRUE, messages |-> msgs \cup {msg}]

\* Database::save_message: plain INSERT; fails on a duplicate primary key,
\* on a peer_id with no peers row (foreign key), on a direction outside
\* {sent, received} (CHECK).
save_message(msgs, prs, msg) ==
    IF \/ \E r \in msgs : r.id = msg.id
       \/ msg.peer_id \notin DOMAIN prs
       \/ msg.direction \notin {"sent", "received"}
    THEN [ok |-> FALSE, messages |-> msgs]
    ELSE [ok |-> TRUE, messages |-> msgs \cup {msg}]

\* A mark_delivered that only reports rows whose flag it flips.
mark_delivered_flips(msgs, id) ==
    [changed  |-> \E r \in msgs : r.id = id /\ ~r.delivered,
     messages |-> {IF r.id = id THEN [r EXCEPT !.delivered = TRUE] ELSE r : r \in msgs}]

\* A mark_delivered that toggles the flag.
mark_delivered_toggle(msgs, id) ==
    [changed  |-> \E r \in msgs : r.id = id,
     messages |-> {IF r.id = id THEN [r EXCEPT !.delivered = ~r.delivered] ELSE r : r \in msgs}]

\* Database::mark_delivered: UPDATE messages SET delivered = 1 WHERE id = ?;
\* the result is rows_affected > 0, and SQLite counts every row the WHERE
\* clause matches, whether or not its value changes.
mark_delivered(msgs, id) ==
    [changed  |-> \E r \in msgs : r.id = id,
     messages |-> {IF r.id = id THEN [r EXCEPT !.delivered = TRUE] ELSE r : r \in msgs}]

\* ------------------------------------------------------------------------
\* Wire messages: familycom-core/src/protocol.rs, enum PeerMessage
\* ------------------------------------------------------------------------
Chat(id, sender_id, sender_name, content, timestamp) ==
    [type |-> "Chat", id |-> id, sender_id |-> sender_id,
     sender_name |-> sender_name, content |-> content, timestamp |-> timestamp]
Ack(message_id) == [type |-> "Ack", message_id |-> message_id]
Ping == [type |-> "Ping"]
Pong == [type |-> "Pong"]

\* ------------------------------------------------------------------------
\* Control messages: familycom-core/src/ipc.rs, enum ServerMessage
\* ------------------------------------------------------------------------
Ok                 == [type |-> "Ok"]
PeerList(ps)       == [type |-> "PeerList", peers |-> ps]
Messages(ms)       == [type |-> "Messages", messages |-> ms]
MessageSent(id)    == [type |-> "MessageSent", message_id |-> id]
NewMessage(m)      == [type |-> "NewMessage", message |-> m]
PeerOnline(p)      == [type |-> "PeerOnline", peer |-> p]
PeerOffline(id)    == [type |-> "PeerOffline", peer_id |-> id]
MessageDelivered(id) == [type |-> "MessageDelivered", message_id |-> id]
Config(name, id)   == [type |-> "Config", display_name |-> name, peer_id |-> id]
Error(code)        == [type |-> "Error", code |-> code]

\* ------------------------------------------------------------------------
\* Outbound client: familycomd/src/client.rs
\* What the network and the remote end do on one connection attempt is an
\* input: the connect fails or times out, the write or the read fails, the
\* read times out, or one frame is read back.
\* ------------------------------------------------------------------------
ResponseFrames == {Ack(1), Ack(2), Pong}
SendOutcomes ==
    {[kind |-> k] : k \in {"connect_timeout", "ack_timeout"}}
    \cup {[kind |-> "response", frame |-> f] : f \in ResponseFrames}

\* A send_message that also checks the id the Ack carries.
send_message_checks_id(addr, message, outcome) ==
    CASE outcome.kind = "connect_error"   -> "Connect"
      [] outcome.kind = "connect_timeout" -> "ConnectTimeout"
      [] outcome.kind = "protocol_error"  -> "Protocol"
      [] outcome.kind = "ack_timeout"     -> "AckTimeout"
      [] outcome.kind = "response" ->
            IF outcome.frame.type = "Ack"
               /\ (message.type = "Chat" => outcome.frame.message_id = message.id)
            THEN "Ok" ELSE "UnexpectedResponse"

\* send_message(addr, message): connect, write one frame, read one frame;
\* Ok exactly when the frame read back is an Ack (of any message_id).
send_message(addr, message, outcome) ==
    CASE outcome.kind = "connect_error"   -> "Connect"
      [] outcome.kind = "connect_timeout" -> "ConnectTimeout"
      [] outcome.kind = "protocol_error"  -> "Protocol"
      [] outcome.kind = "ack_timeout"     -> "AckTimeout"
      [] outcome.kind = "response" ->
            IF outcome.frame.type = "Ack" THEN "Ok" ELSE "UnexpectedResponse"

\* A send_to_any that reports the first error met.
send_to_any_first_error(addresses, message, outcomes) ==
    LET results == [i \in 1 .. Len(addresses) |->
                        send_message(addresses[i], message, outcomes[i])]
        oks     == {i \in 1 .. Len(addresses) : results[i] = "Ok"}
        first   == CHOOSE i \in oks : \A j \in oks : i <= j
        made    == IF oks = {} THEN Len(addresses) ELSE first
    IN  [result   |-> IF addresses = <<>> THEN "NoAddress"
                      ELSE IF oks # {} THEN "Ok"
                      ELSE results[1],
         attempts |-> [i \in 1 .. made |->
                          [addr |-> addresses[i], outcome |-> outcomes[i]]]]

\* A send_to_any that goes through the addresses a second time when all of
\* them failed.
send_to_any_retries(addresses, message, outcomes) ==
    LET results == [i \in 1 .. Len(addresses) |->
                        send_message(addresses[i], message, outcomes[i])]
        oks     == {i \in 1 .. Len(addresses) : results[i] = "Ok"}
        first   == CHOOSE i \in oks : \A j \in oks : i <= j
        made    == IF oks = {} THEN Len(addresses) ELSE first
        round   == [i \in 1 .. made |-> [addr |-> addresses[i], outcome |-> outcomes[i]]]
    IN  [result   |-> IF addresses = <<>> THEN "NoAddress"
                      ELSE IF oks # {} THEN "Ok"
                      ELSE results[Len(addresses)],
         attempts |-> IF oks = {} THEN round \o round ELSE round]

\* send_to_any(addresses, message): the addresses in order, stopping at the
\* first Ok; the last error when all fail; NoAddress for an empty list.
\* outcomes[i] is what happens if addresses[i] is contacted.
\* The result names the attempts made (a prefix of the addresses).
send_to_any(addresses, message, outcomes) ==
    LET results == [i \in 1 .. Len(addresses) |->
                        send_message(addresses[i], message, outcomes[i])]
        oks     == {i \in 1 .. Len(addresses) : results[i] = "Ok"}
        first   == CHOOSE i \in oks : \A j \in oks : i <= j
        made    == IF oks = {} THEN Len(addresses) ELSE first
    IN  [result   |-> IF addresses = <<>> THEN "NoAddress"
                      ELSE IF oks # {} THEN "Ok"
                      ELSE results[Len(addresses)],
         attempts |-> [i \in 1 .. made |->
                          [addr |-> addresses[i], outcome |-> outcomes[i]]]]

\* ------------------------------------------------------------------------
\* Types: familycom-core/src/types.rs
\* ------------------------------------------------------------------------
IsWhitespace(ch) == ch \in {" ", "\t", "\n"}

\* str::len(): the length in bytes of the UTF-8 encoding.
str_len(str) == Len(str) + Cardinality({i \in 1 .. Len(str) : str[i] = Enie})

\* str::trim().is_empty(): every character is whitespace.
TrimIsEmpty(str) == \A i \in 1 .. Len(str) : IsWhitespace(str[i])

\* A MessageContent::new that limits the number of characters.
MessageContent_new_chars(content) ==
    IF TrimIsEmpty(content) THEN "Empty"
    ELSE IF Len(content) > MAX_LENGTH THEN "TooLong"
    ELSE "Ok"

\* MessageContent::new: Empty when all whitespace, TooLong over MAX_LENGTH bytes.
MessageContent_new(content) ==
    IF TrimIsEmpty(content) THEN "Empty"
    ELSE IF str_len(content) > MAX_LENGTH THEN "TooLong"
    ELSE "Ok"

\* ------------------------------------------------------------------------
\* Discovery adapter: familycomd/src/discovery.rs
\* ------------------------------------------------------------------------
\* is_ipv6_link_local: fe80::/10
is_ipv6_link_local(addr) == addr = LinkLocal6

\* the filter/map of browse_loop: drop link-local IPv6, format "{addr}:{port}"
FormatAddr(addr, port) == <<addr, port>>

RECURSIVE resolved_addresses(_, _)
resolved_addresses(addrs, port) ==
    IF addrs = <<>> THEN <<>>
    ELSE IF is_ipv6_link_local(Head(addrs))
         THEN resolved_addresses(Tail(addrs), port)
         ELSE <<FormatAddr(Head(addrs), port)>> \o resolved_addresses(Tail(addrs), port)

\* Raw browse events of the mDNS provider.
ServiceResolved(fullname, peer_id, display_name, addresses) ==
    [type |-> "ServiceResolved", fullname |-> fullname, peer_id |-> peer_id,
     display_name |-> display_name, addresses |-> addresses, port |-> Port]
ServiceRemoved(fullname) == [type |-> "ServiceRemoved", fullname |-> fullname]
ServiceOther == [type |-> "ServiceFound"]

TxtPeerIds == {NoneOpt} \cup {Some(p) : p \in PeerIds}
TxtNames   == {NoneOpt, Some(Cocina)}

MdnsEvents ==
    {ServiceResolved(l, p, n, a) :
        l \in Labels, p \in TxtPeerIds, n \in TxtNames, a \in AddrLists}
    \cup {ServiceRemoved(l) : l \in Labels}
    \cup {ServiceOther}

\* Events of the adapter: enum DiscoveryEvent
PeerFound(info) == [type |-> "PeerFound", peer |-> info]
PeerLost(id)    == [type |-> "PeerLost", peer_id |-> id]

\* A browse_loop that keeps an instance left without an address.
resolved_accepted_unaddressed(ev, our_peer_id) ==
    /\ IsSome(ev.peer_id)
    /\ Unwrap(ev.peer_id) # our_peer_id

\* Whether browse_loop accepts a ServiceResolved: it has a peer_id TXT record,
\* it is not this daemon, and an address is left after filtering.
resolved_accepted(ev, our_peer_id) ==
    /\ IsSome(ev.peer_id)
    /\ Unwrap(ev.peer_id) # our_peer_id
    /\ resolved_addresses(ev.addresses, ev.port) # <<>>

resolved_peer_info(ev, now) ==
    [id |-> Unwrap(ev.peer_id),
     display_name |-> IF IsSome(ev.display_name) THEN Unwrap(ev.display_name) ELSE <<"U", "n", "k">>,
     addresses |-> resolved_addresses(ev.addresses, ev.port),
     last_seen_at |-> now, online |-> TRUE]

\* A removal handler that reports the service label as the peer identity.
removed_events_by_label(map, fullname) == <<PeerLost(fullname)>>

\* The ServiceRemoved arm: fullname_to_peer_id.remove(&fullname), and a
\* PeerLost only when the label was known.
removed_events(map, fullname) ==
    IF fullname \in DOMAIN map THEN <<PeerLost(map[fullname])>> ELSE <<>>

MapRemove(map, k) == [x \in (DOMAIN map) \ {k} |-> map[x]]
MapInsert(map, k, v) == [x \in (DOMAIN map) \cup {k} |-> IF x = k THEN v ELSE map[x]]

\* ------------------------------------------------------------------------
\* State
\* ------------------------------------------------------------------------
VARIABLES
    peers,          \* store: peers table
    messages,       \* store: messages table
    db_calls,       \* SpecStore: number of store calls made
    db_result,      \* SpecStore: the last store call and what it returned
    fn_calls,       \* SpecCalls: number of calls made
    fn_result,      \* SpecCalls: the last call, its arguments and what it returned
    config,         \* DaemonApp.config: peer_id and display_name
    online_peers,   \* DaemonApp.online_peers: PeerId -> PeerInfo
    bus,            \* every ServerMessage sent on event_tx, in order
    fullname_to_peer_id,  \* browse_loop: service label -> PeerId
    discovery_rx,   \* channel browse_loop -> core
    message_rx,     \* channel inbound connection handlers -> core
    ipc_rx,         \* channel control connection handlers -> core
    response_rx,    \* per control client: channel core -> its handler
    subscribed,     \* per control client: handle_ipc_client's flag
    event_rx,       \* per control client: how much of the bus its receiver is past
    sock_out,       \* per control client: what was written to its socket
    conn_out,       \* per inbound connection: the frames written to it
    conn_open,      \* per inbound connection: its handle_connection is running
    last_read,      \* the last read_message of a handler: its input and result,
                    \* and whether the write of the reply to a message succeeds
    conn_error,     \* per inbound connection: the error its handler returned with
    wire_in,        \* per inbound connection: the bytes its peer wrote, not yet read
    conn_sent,      \* per inbound connection: the messages its peer wrote, in order
    last_send,      \* the last send_to_any the core made and its result
    req_seq,        \* per control client: lines read so far
    lag_log,        \* per control client: the counts its handler logged as missed
    ipc_open,       \* per control client: its handle_ipc_client is running
    n_mdns,         \* raw mDNS events handled so far
    n_frames,       \* inbound frames handled so far
    n_reqs,         \* control lines read so far, all clients
    mdns_log,       \* SpecDiscovery: what browse_loop did with each raw event
    socket_file,    \* the daemon whose socket the control socket path names, if any
    ipc_listening,  \* the daemons that hold a listening control socket
    last_bind,      \* SpecBind: the last IpcServer::bind, what it found and did
    core_pc,        \* DaemonApp::run: where the core is (selecting, sending a reply, exited)
    core_held,      \* the reply the core is waiting to send on a full reply channel
    shutdown_rx,    \* the shutdown signals sent and not yet received
    writer_held,    \* per control client: the reply its handler is waiting to write
    duel_core,      \* SpecDuel, per daemon: where its core is and what its sends returned
    duel_conn,      \* SpecDuel, per daemon: the connection the other daemon made to it
    duel_rx,        \* SpecDuel, per daemon: its message_rx
    sock_in,        \* per control client: the pieces of lines written to its socket
                    \* that the handler has not read
    read_future,    \* per control client: the bytes the pending read_line holds
    client_wrote,   \* per control client: the lines it wrote or began to write
    tui_app,        \* the terminal client's TuiApp: the peers and messages it shows
    tui_client      \* the terminal client's connection: the opening lines it wrote,
                    \* how much of its socket it has read, and the sends it made

store_vars == <<peers, messages>>
call_vars  == <<db_calls, db_result, fn_calls, fn_result>>
disc_vars  == <<fullname_to_peer_id, discovery_rx, n_mdns>>
ipc_vars   == <<ipc_rx, response_rx, subscribed, event_rx, sock_out, req_seq, n_reqs,
                lag_log, ipc_open>>
bind_vars  == <<socket_file, ipc_listening, last_bind>>
duel_vars  == <<duel_core, duel_conn, duel_rx>>
run_vars   == <<core_pc, core_held, shutdown_rx, writer_held>>
\* The variables of the scenes the daemon's tasks of the first sections take
\* no part in.
lines_vars == <<sock_in, read_future, client_wrote>>
tui_vars   == <<tui_app, tui_client>>
rest_vars  == <<bind_vars, run_vars, duel_vars, lines_vars, tui_vars>>
wire_vars  == <<message_rx, conn_out, n_frames, conn_open, last_read, conn_error,
                wire_in, conn_sent>>

vars == <<peers, messages, db_calls, db_result, fn_calls, fn_result, config, online_peers, bus,
          fullname_to_peer_id, discovery_rx, message_rx, ipc_rx, response_rx,
          subscribed, event_rx, sock_out, conn_out, last_send, req_seq,
          n_mdns, n_frames, n_reqs, mdns_log, lag_log, ipc_open, conn_open,
          last_read, conn_error, wire_in, conn_sent, socket_file, ipc_listening,
          last_bind, core_pc, core_held, shutdown_rx, writer_held,
          duel_core, duel_conn, duel_rx, sock_in, read_future, client_wrote,
          tui_app, tui_client>>

\* The state after DaemonApp::new on an empty store, with the servers bound
\* and the handlers of the control clients and of the peer connections
\* started, nothing read yet.
Init ==
    /\ peers = <<>>
    /\ messages = {}
    /\ db_calls = 0
    /\ db_result = [op |-> "open", n |-> 0]
    /\ fn_calls = 0
    /\ fn_result = [op |-> "none"]
    /\ config = [peer_id |-> LocalPeerId, display_name |-> LocalName]
    /\ online_peers = <<>>
    /\ bus = <<>>
    /\ fullname_to_peer_id = <<>>
    /\ discovery_rx = <<>>
    /\ message_rx = <<>>
    /\ ipc_rx = <<>>
    /\ response_rx = [c \in Clients |-> <<>>]
    /\ subscribed = [c \in Clients |-> FALSE]
    /\ event_rx = [c \in Clients |-> 0]
    /\ sock_out = [c \in Clients |-> <<>>]
    /\ conn_out = [k \in Conns |-> <<>>]
    /\ last_send = [n |-> 0]
    /\ req_seq = [c \in Clients |-> 0]
    /\ n_mdns = 0
    /\ n_frames = 0
    /\ n_reqs = 0
    /\ mdns_log = <<>>
    /\ lag_log = [c \in Clients |-> <<>>]
    /\ ipc_open = [c \in Clients |-> TRUE]
    /\ conn_open = [k \in Conns |-> TRUE]
    /\ last_read = [n |-> 0]
    /\ conn_error = [k \in Conns |-> NoneOpt]
    /\ wire_in = [k \in Conns |-> <<>>]
    /\ conn_sent = [k \in Conns |-> <<>>]
    /\ socket_file = Some(1)
    /\ ipc_listening = {1}
    /\ last_bind = [op |-> "none"]
    /\ core_pc = "select"
    /\ core_held = NoneOpt
    /\ shutdown_rx = 0
    /\ writer_held = [c \in Clients |-> NoneOpt]
    /\ duel_core = [d \in Duellists |->
                        [pc |-> "select", requests |-> 0, sends |-> 0, results |-> <<>>,
                         received |-> <<>>]]
    /\ duel_conn = [d \in Duellists |-> NoConnection]
    /\ duel_rx = [d \in Duellists |-> <<>>]
    /\ sock_in = [c \in Clients |-> <<>>]
    /\ read_future = [c \in Clients |-> NoneOpt]
    /\ client_wrote = [c \in Clients |-> <<>>]
    /\ tui_app = [peers |-> {}, messages |-> [p \in PeerIds |-> <<>>]]
    /\ tui_client = [wrote |-> 0, read |-> 0, sends |-> <<>>]

daemon_vars == <<fn_calls, fn_result, config, online_peers, bus, fullname_to_peer_id, discovery_rx,
                 message_rx, ipc_rx, response_rx, subscribed, event_rx, sock_out,
                 conn_out, last_send, req_seq, n_mdns, n_frames, n_reqs, mdns_log, rest_vars,
                 lag_log, ipc_open, conn_open, last_read, conn_error, wire_in,
                 conn_sent>>

\* ------------------------------------------------------------------------
\* SpecStore: the store facade driven call by call
\* ------------------------------------------------------------------------
StorePeerInfos ==
    [id : RemotePeerIds, display_name : {Cocina}, last_seen_at : Timestamps,
     addresses : {<<<<"10.0.0.2", Port>>>>}, online : {TRUE}]

StoreMessages ==
    [id : MsgIds, peer_id : RemotePeerIds, direction : {"sent", "received"},
     content : {Hola, Adios}, timestamp : Timestamps, delivered : BOOLEAN]

StoreUpsertPeer(peer) ==
    /\ db_calls < MaxStoreOps
    /\ peers' = upsert_peer(peers, peer)
    /\ db_calls' = db_calls + 1
    /\ db_result' = [op |-> "upsert_peer", n |-> db_calls + 1]
    /\ UNCHANGED <<messages, daemon_vars>>

StoreSaveMessage(msg) ==
    /\ db_calls < MaxStoreOps
    /\ LET r == save_message(messages, peers, msg) IN
        /\ messages' = r.messages
        /\ db_result' = [op |-> "save_message", n |-> db_calls + 1,
                         msg |-> msg, ok |-> r.ok]
    /\ db_calls' = db_calls + 1
    /\ UNCHANGED <<peers, daemon_vars>>

StoreMarkDelivered(id) ==
    /\ db_calls < MaxStoreOps
    /\ LET r == mark_delivered(messages, id) IN
        /\ messages' = r.messages
        /\ db_result' = [op |-> "mark_delivered", n |-> db_calls + 1,
                         id |-> id, ret |-> r.changed]
    /\ db_calls' = db_calls + 1
    /\ UNCHANGED <<peers, daemon_vars>>

StoreNext ==
    \/ \E peer \in StorePeerInfos : StoreUpsertPeer(peer)
    \/ \E msg \in StoreMessages : StoreSaveMessage(msg)
    \/ \E id \in MsgIds : StoreMarkDelivered(id)

SpecStore == Init /\ [][StoreNext]_vars

\* ------------------------------------------------------------------------
\* Discovery adapter: one iteration of browse_loop on a raw event
\* ------------------------------------------------------------------------
\* What browse_loop sends to the core for a raw event.
browse_events(map, ev, now) ==
    CASE ev.type = "ServiceResolved" ->
            IF resolved_accepted(ev, LocalPeerId)
            THEN <<PeerFound(resolved_peer_info(ev, now))>> ELSE <<>>
      [] ev.type = "ServiceRemoved" -> removed_events(map, ev.fullname)
      [] OTHER -> <<>>

\* What browse_loop does to its label table for a raw event.
browse_map(map, ev) ==
    CASE ev.type = "ServiceResolved" ->
            IF resolved_accepted(ev, LocalPeerId)
            THEN MapInsert(map, ev.fullname, Unwrap(ev.peer_id)) ELSE map
      [] ev.type = "ServiceRemoved" -> MapRemove(map, ev.fullname)
      [] OTHER -> map

BrowseLoop(ev, now) ==
    /\ Len(discovery_rx) + 1 <= DISCOVERY_CAPACITY
    /\ n_mdns' = n_mdns + 1
    /\ discovery_rx' = discovery_rx \o browse_events(fullname_to_peer_id, ev, now)
    /\ fullname_to_peer_id' = browse_map(fullname_to_peer_id, ev)

\* ------------------------------------------------------------------------
\* Daemon core: DaemonApp::handle_discovery_event
\* ------------------------------------------------------------------------
\* The PeerLost arm: PeerOffline only if the peer was in online_peers.
lost_events(online, peer_id) ==
    IF peer_id \in DOMAIN online THEN <<PeerOffline(peer_id)>> ELSE <<>>

handle_discovery_event(event) ==
    /\ CASE event.type = "PeerFound" ->
              /\ online_peers' = MapInsert(online_peers, event.peer.id, event.peer)
              /\ peers' = upsert_peer(peers, event.peer)
              /\ bus' = Append(bus, PeerOnline(event.peer))
         [] event.type = "PeerLost" ->
              /\ online_peers' = MapRemove(online_peers, event.peer_id)
              /\ bus' = bus \o lost_events(online_peers, event.peer_id)
              /\ UNCHANGED peers
    /\ UNCHANGED <<messages, config, last_send>>

CoreDiscovery ==
    /\ discovery_rx # <<>>
    /\ handle_discovery_event(Head(discovery_rx))
    /\ discovery_rx' = Tail(discovery_rx)
    /\ UNCHANGED <<fullname_to_peer_id, n_mdns, mdns_log, rest_vars, call_vars, ipc_vars, wire_vars>>

\* ------------------------------------------------------------------------
\* Wire framing: familycom-core/src/protocol.rs, read_message
\* ------------------------------------------------------------------------
MAX_FRAME_SIZE == 1048576

\* What a handler's read finds on the stream: the bytes of the length prefix
\* that arrive (four when it is whole), how many payload bytes arrive after
\* it, how the stream ends when bytes are missing (end of stream, or an I/O
\* error such as a reset), and what the payload bytes are: the encoding of a
\* message, or bytes that are none.
Stream(prefix, avail, end, payload) ==
    [prefix |-> prefix, avail |-> avail, end |-> end, payload |-> payload]

Encoded(msg) == [type |-> "Encoded", msg |-> msg]
Garbage      == [type |-> "Garbage"]

\* A u32 is kept as its two 16-bit halves, so that every value a prefix can
\* declare is represented (2^32 - 1 is beyond the integers of the checker).
U32(n) == [hi |-> n \div 65536, lo |-> n % 65536]

u32_gt(a, b) == a.hi > b.hi \/ (a.hi = b.hi /\ a.lo > b.lo)

\* `length as usize`, used once the size check has passed.
as_usize(a) == a.hi * 65536 + a.lo

\* u32::from_be_bytes
from_be_bytes(b) == [hi |-> b[1] * 256 + b[2], lo |-> b[3] * 256 + b[4]]

\* A size check that rejects the limit itself.
frame_too_large_at_limit(length) ==
    u32_gt(length, U32(MAX_FRAME_SIZE)) \/ length = U32(MAX_FRAME_SIZE)

\* The size check of read_message: length > MAX_FRAME_SIZE.
frame_too_large(length) == u32_gt(length, U32(MAX_FRAME_SIZE))

ReadResult(kind, msg, payload_read) ==
    [kind |-> kind, msg |-> msg, payload_read |-> payload_read]

\* protocol::decode of the payload bytes.
decode(payload, length) ==
    IF payload.type = "Encoded"
    THEN ReadResult("Ok", Some(payload.msg), length)
    ELSE ReadResult("Decode", NoneOpt, length)

\* read_message: read_exact of the four prefix bytes (UnexpectedEof, which
\* read_exact returns whenever the stream ends before the buffer is full,
\* becomes ConnectionClosed; another error Io), the size check, read_exact
\* of the payload (any error Io), decode.
read_message(stream) ==
    IF Len(stream.prefix) < 4
    THEN IF stream.end = "eof"
         THEN ReadResult("ConnectionClosed", NoneOpt, 0)
         ELSE ReadResult("Io", NoneOpt, 0)
    ELSE LET length == from_be_bytes(stream.prefix) IN
         IF frame_too_large(length)
         THEN ReadResult("FrameTooLarge", NoneOpt, 0)
         ELSE IF stream.avail < as_usize(length)
         THEN ReadResult("Io", NoneOpt, stream.avail)
         ELSE decode(stream.payload, as_usize(length))

\* ------------------------------------------------------------------------
\* Wire encoding: protocol::encode and protocol::decode, byte by byte
\* A message here has its texts as UTF-8 byte sequences and its timestamp
\* as the eight bytes of the i64, most significant first. The payload is
\* MessagePack as rmp_serde::to_vec_named writes an enum tagged with
\* #[serde(tag = "type")]: a map of field names to values, "type" first.
\* ------------------------------------------------------------------------
AllAre(b, from, to, v) == \A i \in from .. to : b[i] = v

\* A string: fixstr, str 8, str 16 or str 32 by its length in bytes.
mp_str(str) ==
    LET n == Len(str) IN
    IF n <= 31 THEN <<160 + n>> \o str
    ELSE IF n <= 255 THEN <<217, n>> \o str
    ELSE IF n <= 65535 THEN <<218, n \div 256, n % 256>> \o str
    ELSE <<219, n \div 16777216, (n \div 65536) % 256, (n \div 256) % 256, n % 256>> \o str

\* An i64 (rmp::encode::write_sint): the shortest form that holds the value.
mp_int(b) ==
    IF b[1] < 128
    THEN IF AllAre(b, 1, 7, 0) /\ b[8] < 128 THEN <<b[8]>>
         ELSE IF AllAre(b, 1, 7, 0) THEN <<204, b[8]>>
         ELSE IF AllAre(b, 1, 6, 0) THEN <<205>> \o SubSeq(b, 7, 8)
         ELSE IF AllAre(b, 1, 4, 0) THEN <<206>> \o SubSeq(b, 5, 8)
         ELSE <<207>> \o b
    ELSE IF AllAre(b, 1, 7, 255) /\ b[8] >= 224 THEN <<b[8]>>
         ELSE IF AllAre(b, 1, 7, 255) /\ b[8] >= 128 THEN <<208, b[8]>>
         ELSE IF AllAre(b, 1, 6, 255) /\ b[7] >= 128 THEN <<209>> \o SubSeq(b, 7, 8)
         ELSE IF AllAre(b, 1, 4, 255) /\ b[5] >= 128 THEN <<210>> \o SubSeq(b, 5, 8)
         ELSE <<211>> \o b

\* The names of the variants and of the fields, in ASCII.
KeyType      == <<116, 121, 112, 101>>
KeyId        == <<105, 100>>
KeySenderId  == <<115, 101, 110, 100, 101, 114, 95, 105, 100>>
KeySenderName == <<115, 101, 110, 100, 101, 114, 95, 110, 97, 109, 101>>
KeyContent   == <<99, 111, 110, 116, 101, 110, 116>>
KeyTimestamp == <<116, 105, 109, 101, 115, 116, 97, 109, 112>>
KeyMessageId == <<109, 101, 115, 115, 97, 103, 101, 95, 105, 100>>
TagChat      == <<67, 104, 97, 116>>
TagAck       == <<65, 99, 107>>
TagPing      == <<80, 105, 110, 103>>
TagPong      == <<80, 111, 110, 103>>

\* rmp_serde::to_vec_named of a PeerMessage.
to_vec_named(msg) ==
    CASE msg.type = "Chat" ->
            <<134>> \o mp_str(KeyType) \o mp_str(TagChat)
                \o mp_str(KeyId) \o mp_str(msg.id)
                \o mp_str(KeySenderId) \o mp_str(msg.sender_id)
                \o mp_str(KeySenderName) \o mp_str(msg.sender_name)
                \o mp_str(KeyContent) \o mp_str(msg.content)
                \o mp_str(KeyTimestamp) \o mp_int(msg.timestamp)
      [] msg.type = "Ack" ->
            <<130>> \o mp_str(KeyType) \o mp_str(TagAck)
                \o mp_str(KeyMessageId) \o mp_str(msg.message_id)
      [] msg.type = "Ping" -> <<129>> \o mp_str(KeyType) \o mp_str(TagPing)
      [] msg.type = "Pong" -> <<129>> \o mp_str(KeyType) \o mp_str(TagPong)

\* u32::to_be_bytes of `payload.len() as u32`.
to_be_bytes(n) ==
    <<(n \div 16777216) % 256, (n \div 65536) % 256, (n \div 256) % 256, n % 256>>

\* An encoder whose prefix counts the whole frame.
encode_counts_prefix(msg) ==
    LET payload == to_vec_named(msg) IN to_be_bytes(4 + Len(payload)) \o payload

\* protocol::encode: the four bytes of the payload length, then the payload.
encode(msg) ==
    LET payload == to_vec_named(msg) IN to_be_bytes(Len(payload)) \o payload

\* Reading MessagePack back. A parse is [ok, kind, val, next]: whether a
\* value starts at pos, what it is, and where the next one starts.
NoParse == [ok |-> FALSE, kind |-> "none", val |-> <<>>, next |-> 0]

Parsed(kind, val, next) == [ok |-> TRUE, kind |-> kind, val |-> val, next |-> next]

Take(b, start, n, kind) ==
    IF start + n - 1 <= Len(b)
    THEN Parsed(kind, SubSeq(b, start, start + n - 1), start + n)
    ELSE NoParse

Fill(v, n) == [i \in 1 .. n |-> v]

\* An integer widened to the eight bytes of an i64; an unsigned 64-bit
\* value above i64::MAX is no i64.
Widen(p, fill) ==
    IF p.ok THEN [p EXCEPT !.val = Fill(fill, 8 - Len(p.val)) \o p.val] ELSE NoParse

parse_value(b, pos) ==
    IF pos > Len(b) THEN NoParse
    ELSE LET m == b[pos] IN
         CASE m < 128 -> Parsed("int", Fill(0, 7) \o <<m>>, pos + 1)
           [] m >= 224 -> Parsed("int", Fill(255, 7) \o <<m>>, pos + 1)
           [] m \in 160 .. 191 -> Take(b, pos + 1, m - 160, "str")
           [] m = 217 -> IF pos + 1 <= Len(b)
                         THEN Take(b, pos + 2, b[pos + 1], "str") ELSE NoParse
           [] m = 218 -> IF pos + 2 <= Len(b)
                         THEN Take(b, pos + 3, b[pos + 1] * 256 + b[pos + 2], "str")
                         ELSE NoParse
           [] m = 219 -> IF pos + 4 <= Len(b) /\ b[pos + 1] < 128
                         THEN Take(b, pos + 5,
                                   b[pos + 1] * 16777216 + b[pos + 2] * 65536
                                       + b[pos + 3] * 256 + b[pos + 4], "str")
                         ELSE NoParse
           [] m = 204 -> Widen(Take(b, pos + 1, 1, "int"), 0)
           [] m = 205 -> Widen(Take(b, pos + 1, 2, "int"), 0)
           [] m = 206 -> Widen(Take(b, pos + 1, 4, "int"), 0)
           [] m = 207 -> LET p == Take(b, pos + 1, 8, "int") IN
                         IF p.ok /\ p.val[1] < 128 THEN p ELSE NoParse
           [] m \in 208 .. 211 ->
                LET width == CASE m = 208 -> 1 [] m = 209 -> 2 [] m = 210 -> 4 [] m = 211 -> 8
                    p == Take(b, pos + 1, width, "int")
                IN  IF p.ok THEN Widen(p, IF p.val[1] >= 128 THEN 255 ELSE 0) ELSE NoParse
           [] OTHER -> NoParse

\* The entries of a map of n entries that starts at pos: a sequence of
\* <<key, value>>, or a failure.
RECURSIVE parse_entries(_, _, _, _)
parse_entries(b, pos, n, acc) ==
    IF n = 0 THEN [ok |-> TRUE, entries |-> acc]
    ELSE LET key == parse_value(b, pos) IN
         IF ~key.ok \/ key.kind # "str" THEN [ok |-> FALSE, entries |-> <<>>]
         ELSE LET value == parse_value(b, key.next) IN
              IF ~value.ok THEN [ok |-> FALSE, entries |-> <<>>]
              ELSE parse_entries(b, value.next, n - 1,
                                 Append(acc, [key |-> key.val, value |-> value]))

\* The values of the entries with a key; a field is read when there is one.
Field(entries, key, kind) ==
    LET at == {i \in 1 .. Len(entries) : entries[i].key = key} IN
    IF Cardinality(at) = 1 /\ (\A i \in at : entries[i].value.kind = kind)
    THEN Some((entries[CHOOSE i \in at : TRUE]).value.val)
    ELSE NoneOpt

DecodeError == [ok |-> FALSE]

Decoded(msg) == [ok |-> TRUE, msg |-> msg]

\* protocol::decode, rmp_serde::from_slice into PeerMessage: a map, the
\* variant named by its "type" entry, the fields of the variant by name.
decode_bytes(payload) ==
    IF payload = <<>> \/ payload[1] \notin 128 .. 143 THEN DecodeError
    ELSE LET parse == parse_entries(payload, 2, payload[1] - 128, <<>>)
             es == parse.entries
             tag == Field(es, KeyType, "str")
             F(key, kind) == Field(es, key, kind)
         IN  IF ~parse.ok \/ ~IsSome(tag) THEN DecodeError
             ELSE CASE Unwrap(tag) = TagChat ->
                        IF /\ IsSome(F(KeyId, "str")) /\ IsSome(F(KeySenderId, "str"))
                           /\ IsSome(F(KeySenderName, "str")) /\ IsSome(F(KeyContent, "str"))
                           /\ IsSome(F(KeyTimestamp, "int"))
                        THEN Decoded(Chat(Unwrap(F(KeyId, "str")),
                                          Unwrap(F(KeySenderId, "str")),
                                          Unwrap(F(KeySenderName, "str")),
                                          Unwrap(F(KeyContent, "str")),
                                          Unwrap(F(KeyTimestamp, "int"))))
                        ELSE DecodeError
                    [] Unwrap(tag) = TagAck ->
                        IF IsSome(F(KeyMessageId, "str"))
                        THEN Decoded(Ack(Unwrap(F(KeyMessageId, "str"))))
                        ELSE DecodeError
                    [] Unwrap(tag) = TagPing -> Decoded(Ping)
                    [] Unwrap(tag) = TagPong -> Decoded(Pong)
                    [] OTHER -> DecodeError

\* ------------------------------------------------------------------------
\* Inbound server: one iteration of handle_connection on a frame read
\* ------------------------------------------------------------------------
\* The frame handle_connection writes back for a frame it read.
connection_reply(msg) ==
    CASE msg.type = "Chat" -> <<Ack(msg.id)>>
      [] msg.type = "Ping" -> <<Pong>>
      [] OTHER -> <<>>

\* A handler that forwards whatever it reads.
connection_forwards_all(msg) == TRUE

\* Whether handle_connection forwards the frame to the core.
connection_forwards(msg) == msg.type \in {"Chat", "Ack"}

\* A channel that hands over the newest item first.
channel_send_front(queue, item) == <<item>> \o queue

\* message_tx.send: the item goes to the back of the channel.
channel_send(queue, item) == Append(queue, item)

\* write_ok: whether the write of the reply to the socket succeeds; a failed
\* write is logged and the loop goes on.
HandleConnection(k, msg, from_addr, write_ok) ==
    /\ conn_open[k]
    /\ Len(message_rx) + 1 <= MESSAGE_CAPACITY
    /\ n_frames' = n_frames + 1
    /\ conn_out' = [conn_out EXCEPT ![k] =
                        IF write_ok THEN @ \o connection_reply(msg) ELSE @]
    /\ message_rx' = IF connection_forwards(msg)
                     THEN channel_send(message_rx,
                                       [message |-> msg, from_addr |-> from_addr])
                     ELSE message_rx

\* A server in which the error of one handler ends them all.
handler_returns_all(open, k) == [j \in Conns |-> FALSE]

\* handle_connection returns (read_message(..).await?): the task that
\* accept_loop spawned for the connection logs the error and ends.
handler_returns(open, k) == [open EXCEPT ![k] = FALSE]

\* One iteration of handle_connection from the read on: read_message on what
\* the stream holds, then the arms above, or the return on an error.
HandleConnectionRead(k, stream, from_addr, write_ok) ==
    LET result == read_message(stream) IN
    /\ conn_open[k]
    /\ last_read' = [n |-> n_frames + 1, conn |-> k, stream |-> stream,
                     result |-> result,
                     write_ok |-> result.kind = "Ok" /\ write_ok]
    /\ IF result.kind = "Ok"
       THEN /\ HandleConnection(k, Unwrap(result.msg), from_addr, write_ok)
            /\ UNCHANGED <<conn_open, conn_error>>
       ELSE /\ conn_open' = handler_returns(conn_open, k)
            /\ conn_error' = [conn_error EXCEPT ![k] = Some(result.kind)]
            /\ n_frames' = n_frames + 1
            /\ UNCHANGED <<message_rx, conn_out>>

\* accept_loop: a connection is accepted and its handler spawned, here in
\* the place of a handler that has ended. conn_out[k] goes on as the record
\* of what the handlers in that place wrote.
Accept(k) ==
    /\ ~conn_open[k]
    /\ conn_open' = [conn_open EXCEPT ![k] = TRUE]
    /\ conn_error' = [conn_error EXCEPT ![k] = NoneOpt]
    /\ UNCHANGED <<message_rx, conn_out, n_frames, last_read, wire_in, conn_sent>>

Min(a, b) == IF a <= b THEN a ELSE b

\* What read_message finds when the stream holds `bytes` and nothing more
\* arrives: the prefix bytes there are, the bytes after them, and what the
\* payload the prefix declares decodes to.
StreamOf(bytes) ==
    LET prefix == SubSeq(bytes, 1, Min(4, Len(bytes)))
        avail  == Len(bytes) - Len(prefix)
        whole  == /\ Len(prefix) = 4
                  /\ ~frame_too_large(from_be_bytes(prefix))
                  /\ avail >= as_usize(from_be_bytes(prefix))
        body   == decode_bytes(SubSeq(bytes, 5, 4 + as_usize(from_be_bytes(prefix))))
    IN  Stream(prefix, avail, "eof",
               IF whole /\ body.ok THEN Encoded(body.msg) ELSE Garbage)

\* The bytes left on the stream after a read of it.
AfterRead(bytes, stream) ==
    LET taken == Len(stream.prefix) + read_message(stream).payload_read
    IN  SubSeq(bytes, taken + 1, Len(bytes))

\* The peer writes a message to its connection: protocol::write_message.
PeerWrite(k, msg) ==
    /\ conn_open[k]
    /\ wire_in' = [wire_in EXCEPT ![k] = @ \o encode(msg)]
    /\ conn_sent' = [conn_sent EXCEPT ![k] = Append(@, msg)]
    /\ UNCHANGED <<message_rx, conn_out, n_frames, conn_open, last_read, conn_error>>

\* The remote address of connection k, as accept returned it.
ConnAddr(k) == <<"10.0.0.2", 50000 + k>>

\* One iteration of handle_connection on the bytes of its stream, once the
\* stream holds a whole frame (read_exact waits for the bytes it asks for).
HandleConnectionBytes(k, write_ok) ==
    \E stream \in {StreamOf(wire_in[k])} :
        /\ Len(stream.prefix) = 4
        /\ \/ frame_too_large(from_be_bytes(stream.prefix))
           \/ stream.avail >= as_usize(from_be_bytes(stream.prefix))
        /\ HandleConnectionRead(k, stream, ConnAddr(k), write_ok)
        /\ wire_in' = [wire_in EXCEPT ![k] = AfterRead(@, stream)]
        /\ UNCHANGED conn_sent

\* ------------------------------------------------------------------------
\* Daemon core: DaemonApp::handle_incoming_message
\* ------------------------------------------------------------------------
received_record(chat) ==
    [id |-> chat.id, peer_id |-> chat.sender_id, direction |-> "received",
     content |-> chat.content, timestamp |-> chat.timestamp, delivered |-> TRUE]

\* A Chat arm without the "ensure the peer exists" step.
ensure_peer_skipped(prs, chat, from_addr, now) == prs

\* The peers table after the "ensure the peer exists" step.
ensure_peer(prs, chat, from_addr, now) ==
    IF \E p \in get_peers(prs) : p.id = chat.sender_id
    THEN prs
    ELSE upsert_peer(prs, [id |-> chat.sender_id, display_name |-> chat.sender_name,
                           addresses |-> <<from_addr>>, last_seen_at |-> now,
                           online |-> TRUE])

\* A Chat arm that publishes only when the record was saved.
chat_events_if_saved(saved, message) ==
    IF saved THEN <<NewMessage(message)>> ELSE <<>>

\* The Chat arm publishes NewMessage whether or not save_message succeeded.
chat_events(saved, message) == <<NewMessage(message)>>

\* An Ack arm that publishes only when mark_delivered changed a row.
ack_events_if_marked(marked, message_id) ==
    IF marked.changed THEN <<MessageDelivered(message_id)>> ELSE <<>>

\* The Ack arm publishes MessageDelivered whatever mark_delivered returned.
ack_events(marked, message_id) == <<MessageDelivered(message_id)>>

handle_incoming_message(incoming, now) ==
    /\ CASE incoming.message.type = "Chat" ->
              LET message == received_record(incoming.message)
                  prs1    == ensure_peer(peers, incoming.message, incoming.from_addr, now)
                  saved   == save_message(messages, prs1, message)
              IN  /\ peers' = prs1
                  /\ messages' = saved.messages
                  /\ bus' = bus \o chat_events(saved.ok, message)
         [] incoming.message.type = "Ack" ->
              LET marked == mark_delivered(messages, incoming.message.message_id)
              IN  /\ messages' = marked.messages
                  /\ bus' = bus \o ack_events(marked, incoming.message.message_id)
                  /\ UNCHANGED peers
         [] OTHER -> UNCHANGED <<peers, messages, bus>>
    /\ UNCHANGED <<online_peers, config, last_send>>

CoreIncoming(now) ==
    /\ message_rx # <<>>
    /\ handle_incoming_message(Head(message_rx), now)
    /\ message_rx' = Tail(message_rx)
    /\ UNCHANGED <<conn_out, n_frames, conn_open, last_read, conn_error, wire_in,
                   conn_sent, disc_vars, mdns_log, rest_vars, call_vars, ipc_vars>>

\* ------------------------------------------------------------------------
\* Control server: familycomd/src/ipc_server.rs, handle_ipc_client
\* ------------------------------------------------------------------------
\* Lines a control client can write: the requests of enum ClientRequest, and
\* a line that does not decode.
ListPeers   == [type |-> "ListPeers"]
GetMessages(peer_id, limit, before) ==
    [type |-> "GetMessages", peer_id |-> peer_id, limit |-> limit, before |-> before]
SendMessage(peer_id, content) ==
    [type |-> "SendMessage", peer_id |-> peer_id, content |-> content]
GetConfig   == [type |-> "GetConfig"]
SetDisplayName(name) == [type |-> "SetDisplayName", name |-> name]
Subscribe   == [type |-> "Subscribe"]
Malformed   == [type |-> "Malformed"]
Eof         == [type |-> "Eof"]      \* read_line returns Ok(0)
NotUtf8     == [type |-> "NotUtf8"]  \* bytes that are no UTF-8: read_line returns Err

Lines ==
    {ListPeers, GetConfig, Subscribe, Malformed}
    \cup {GetMessages("bbb", 1, NoneOpt)}
    \cup {SendMessage("bbb", c) : c \in {Hola, Blank}}
    \cup {SetDisplayName(n) : n \in {Salon, Blank}}

\* ipc::decode_request: a line that is not a request is an error.
decode_request_ok(line) == line.type # "Malformed"

Written(c, entry) == [sock_out EXCEPT ![c] = Append(@, entry)]

Reply(n, msg) == [kind |-> "reply", req |-> n, msg |-> msg]
Event(msg)    == [kind |-> "event", msg |-> msg]

\* A Subscribe that attaches a new receiver every time.
subscribe_again(already, receiver, b) == Len(b)

\* The receiver after a Subscribe: event_tx.subscribe(), a receiver of the
\* events sent from now on, the first time only.
subscribe(already, receiver, b) == IF already THEN receiver ELSE Len(b)

\* A handler that treats a failed read as an undecodable line.
read_line_ends_on_eof(line) == line.type = "Eof"

\* read_line into a String: Ok(0) at the end of the stream and Err for
\* bytes that are not UTF-8; the handler returns on both.
read_line_ends(line) == line.type \in {"Eof", "NotUtf8"}

\* The read branch of the select: one line read from client c.
\* The line is the req_seq[c]+1-th of that client; req carries that number
\* with the reply so that replies can be matched to requests.
IpcRead(c, line) ==
    /\ ipc_open[c]
    /\ n_reqs' = n_reqs + 1
    /\ IF read_line_ends(line)
       THEN /\ ipc_open' = [ipc_open EXCEPT ![c] = FALSE]
            /\ UNCHANGED <<req_seq, subscribed, event_rx, ipc_rx, sock_out>>
       ELSE
       /\ req_seq' = [req_seq EXCEPT ![c] = @ + 1]
       /\ UNCHANGED ipc_open
       /\ LET n == req_seq[c] + 1 IN
          IF ~decode_request_ok(line)
          THEN /\ sock_out' = Written(c, Reply(n, Error("invalid_request")))
               /\ UNCHANGED <<subscribed, event_rx, ipc_rx>>
          ELSE IF line.type = "Subscribe"
          THEN /\ subscribed' = [subscribed EXCEPT ![c] = TRUE]
               /\ event_rx' = [event_rx EXCEPT ![c] =
                                  subscribe(subscribed[c], event_rx[c], bus)]
               /\ sock_out' = Written(c, Reply(n, Ok))
               /\ UNCHANGED ipc_rx
          ELSE /\ Len(ipc_rx) + 1 <= IPC_REQUEST_CAPACITY
               /\ ipc_rx' = Append(ipc_rx, [request |-> line, client |-> c, req |-> n])
               /\ UNCHANGED <<subscribed, event_rx, sock_out>>
    /\ UNCHANGED <<response_rx, lag_log>>

\* The response branch of the select: one reply taken from response_rx and
\* written to the socket.
IpcWriteResponse(c) ==
    /\ ipc_open[c]
    /\ response_rx[c] # <<>>
    /\ sock_out' = Written(c, Reply(Head(response_rx[c]).req, Head(response_rx[c]).msg))
    /\ response_rx' = [response_rx EXCEPT ![c] = Tail(@)]
    /\ UNCHANGED <<ipc_rx, subscribed, event_rx, req_seq, n_reqs, lag_log, ipc_open>>

\* broadcast::Receiver::recv for a receiver that is past pos events of the
\* bus b: the next event; or, when more than the capacity of events were sent
\* since, Lagged(n) with n the events it missed, the receiver moving to the
\* oldest event the channel retains.
bus_recv(b, pos) ==
    IF Len(b) - pos > BUS_CAPACITY
    THEN [kind |-> "Lagged", n |-> Len(b) - BUS_CAPACITY - pos,
          next |-> Len(b) - BUS_CAPACITY]
    ELSE [kind |-> "Ok", msg |-> b[pos + 1], next |-> pos + 1]

\* A handler that writes each event it receives twice.
forward_written_twice(c, event) ==
    IF event.kind = "Ok" THEN <<Event(event.msg), Event(event.msg)>> ELSE <<>>

\* What the event branch writes to the socket: the event; nothing for Lagged.
forward_written(c, event) ==
    IF event.kind = "Ok" THEN <<Event(event.msg)>> ELSE <<>>

\* A handler that returns when its receiver has lagged.
forward_continues_unless_lagged(event) == event.kind = "Ok"

\* Whether the loop goes on after the event branch: it does for an event and
\* for Lagged (only RecvError::Closed makes the handler return).
forward_continues(event) == event.kind \in {"Ok", "Lagged"}

\* What the event branch logs: the count of a Lagged.
forward_logged(event) == IF event.kind = "Lagged" THEN <<event.n>> ELSE <<>>

\* The event branch of the select: the receiver's next item.
IpcForwardEvent(c) ==
    /\ ipc_open[c]
    /\ subscribed[c]
    /\ event_rx[c] < Len(bus)
    /\ LET event == bus_recv(bus, event_rx[c]) IN
        /\ event_rx' = [event_rx EXCEPT ![c] = event.next]
        /\ sock_out' = [sock_out EXCEPT ![c] = @ \o forward_written(c, event)]
        /\ lag_log' = [lag_log EXCEPT ![c] = @ \o forward_logged(event)]
        /\ ipc_open' = [ipc_open EXCEPT ![c] = forward_continues(event)]
    /\ UNCHANGED <<ipc_rx, response_rx, subscribed, req_seq, n_reqs>>


\* ------------------------------------------------------------------------
\* Daemon core: DaemonApp::handle_ipc_request and the request handlers
\* ------------------------------------------------------------------------
\* handle_list_peers: the stored peers, online set from online_peers.
handle_list_peers(prs, online) ==
    PeerList({[p EXCEPT !.online = (p.id \in DOMAIN online)] : p \in get_peers(prs)})

\* Database::get_messages: the rows of the peer (older than before, if
\* given), newest first, at most limit of them. Rows with equal timestamps
\* come in an order the store chooses: the set of the possible results.
\* A get_messages whose `before` bound is inclusive.
get_messages_upto(msgs, peer_id, limit, before) ==
    LET rows == {r \in msgs : /\ r.peer_id = peer_id
                              /\ (IsSome(before) => r.timestamp <= Unwrap(before))}
        n    == Min(limit, Cardinality(rows))
    IN  {res \in [1 .. n -> rows] :
            /\ \A i, j \in 1 .. n : i < j =>
                    res[i] # res[j] /\ res[i].timestamp >= res[j].timestamp
            /\ \A r \in rows \ Range(res) : \A i \in 1 .. n :
                    res[i].timestamp >= r.timestamp}

get_messages(msgs, peer_id, limit, before) ==
    LET rows == {r \in msgs : /\ r.peer_id = peer_id
                              /\ (IsSome(before) => r.timestamp < Unwrap(before))}
        n    == Min(limit, Cardinality(rows))
    IN  {res \in [1 .. n -> rows] :
            /\ \A i, j \in 1 .. n : i < j =>
                    res[i] # res[j] /\ res[i].timestamp >= res[j].timestamp
            /\ \A r \in rows \ Range(res) : \A i \in 1 .. n :
                    res[i].timestamp >= r.timestamp}

RECURSIVE TrimStart(_)
TrimStart(str) ==
    IF str = <<>> \/ ~IsWhitespace(Head(str)) THEN str ELSE TrimStart(Tail(str))
RECURSIVE TrimEnd(_)
TrimEnd(str) ==
    IF str = <<>> \/ ~IsWhitespace(str[Len(str)]) THEN str
    ELSE TrimEnd(SubSeq(str, 1, Len(str) - 1))
Trim(str) == TrimEnd(TrimStart(str))

MAX_NAME == 50

\* handle_set_display_name: reject a blank name or one over 50 bytes untrimmed;
\* set the trimmed name, then save the config file, which can fail.
handle_set_display_name(cfg, name, save_ok) ==
    IF TrimIsEmpty(name) \/ str_len(name) > MAX_NAME
    THEN [config |-> cfg, reply |-> Error("invalid_name")]
    ELSE [config |-> [cfg EXCEPT !.display_name = Trim(name)],
          reply  |-> IF save_ok THEN Ok ELSE Error("config_error")]

\* The addresses handle_send_message dials: those of the online peer, else
\* those of the stored peer, else none.
send_addresses(online, prs, peer_id) ==
    IF peer_id \in DOMAIN online THEN online[peer_id].addresses
    ELSE IF \E p \in get_peers(prs) : p.id = peer_id
         THEN (CHOOSE p \in get_peers(prs) : p.id = peer_id).addresses
         ELSE <<>>

\* MessageId::generate: a new UUID, an identity no stored message has.
FreshIds == {id \in 1 .. Cardinality(messages) + 1 : \A r \in messages : r.id # id}
generate == CHOOSE id \in FreshIds : \A j \in FreshIds : id <= j

sent_record(id, peer_id, content, timestamp) ==
    [id |-> id, peer_id |-> peer_id, direction |-> "sent", content |-> content,
     timestamp |-> timestamp, delivered |-> FALSE]

\* A reply that reports a failed send as an error.
send_reply_reports(result, message_id) ==
    IF result = "Ok" THEN MessageSent(message_id) ELSE Error("send_failed")

\* The reply of handle_send_message once the record is saved: MessageSent
\* with the id, on both arms of the match on send_to_any's result.
send_reply(result, message_id) == MessageSent(message_id)

\* A handler that marks the record delivered whatever the send returned.
after_send_always(msgs, result, message_id) == mark_delivered(msgs, message_id).messages

\* The store after the send: mark_delivered on the Ok arm only.
after_send(msgs, result, message_id) ==
    IF result = "Ok" THEN mark_delivered(msgs, message_id).messages ELSE msgs

\* A handler that publishes a failed send on the bus as an Error.
send_events_error(result, message_id) ==
    IF result = "Ok" THEN <<>> ELSE <<Error("send_failed")>>

\* What handle_send_message publishes on the bus: nothing, on either arm.
send_events(result, message_id) == <<>>

\* A handler that goes on to send whatever save_message returned.
save_failed_ignored(saved) == FALSE

\* `if let Err(e) = db.save_message(&message)`: the handler returns.
save_failed(saved) == ~saved.ok

\* handle_send_message. outcomes: what each address does if dialled;
\* save_ok: whether the database carries out the INSERT.
\* Yields the reply and the new store, bus and last_send.
handle_send_message(peer_id, content, now, outcomes, save_ok) ==
    LET addresses == send_addresses(online_peers, peers, peer_id)
        message_id == generate
        chat  == Chat(message_id, config.peer_id, config.display_name, content, now)
        saved == IF save_ok
                 THEN save_message(messages, peers,
                                   sent_record(message_id, peer_id, content, now))
                 ELSE [ok |-> FALSE, messages |-> messages]
        sent  == send_to_any(addresses, chat, outcomes)
    IN  IF MessageContent_new(content) # "Ok"
        THEN [reply |-> Error("invalid_content"), messages |-> messages,
              events |-> <<>>, last_send |-> last_send]
        ELSE IF addresses = <<>>
        THEN [reply |-> Error("peer_not_found"), messages |-> messages,
              events |-> <<>>, last_send |-> last_send]
        ELSE IF save_failed(saved)
        THEN [reply |-> Error("db_error"), messages |-> saved.messages,
              events |-> <<>>, last_send |-> last_send]
        ELSE [reply |-> send_reply(sent.result, message_id),
              messages |-> after_send(saved.messages, sent.result, message_id),
              events |-> send_events(sent.result, message_id),
              last_send |-> [n |-> last_send.n + 1, id |-> message_id,
                             result |-> sent.result, attempts |-> sent.attempts,
                             stored |-> {r \in saved.messages : r.id = message_id},
                             subscribers |-> {c \in Clients : subscribed[c]}]]

\* The addresses a SendMessage would dial decide how many outcomes are inputs.
OutcomesFor(request) ==
    IF request.type = "SendMessage" /\ MessageContent_new(request.content) = "Ok"
    THEN [1 .. Len(send_addresses(online_peers, peers, request.peer_id)) -> SendOutcomes]
    ELSE {<<>>}

\* The match of handle_ipc_request: the handler of the request's type makes
\* the reply, which respond then hands to the client's handler.
match_request(ipc_req, now, outcomes, res, save_ok, respond(_)) ==
    LET request == ipc_req.request
    IN  CASE request.type = "ListPeers" ->
                /\ respond(handle_list_peers(peers, online_peers))
                /\ UNCHANGED <<messages, bus, last_send, config>>
          [] request.type = "GetMessages" ->
                /\ respond(Messages(res))
                /\ UNCHANGED <<messages, bus, last_send, config>>
          [] request.type = "SendMessage" ->
                LET r == handle_send_message(request.peer_id, request.content, now,
                                             outcomes, save_ok)
                IN  /\ respond(r.reply)
                    /\ messages' = r.messages
                    /\ bus' = bus \o r.events
                    /\ last_send' = r.last_send
                    /\ UNCHANGED config
          [] request.type = "GetConfig" ->
                /\ respond(Config(config.display_name, config.peer_id))
                /\ UNCHANGED <<messages, bus, last_send, config>>
          [] request.type = "SetDisplayName" ->
                LET r == handle_set_display_name(config, request.name, save_ok)
                IN  /\ respond(r.reply)
                    /\ config' = r.config
                    /\ UNCHANGED <<messages, bus, last_send>>
          [] request.type = "Subscribe" ->
                /\ respond(Ok)
                /\ UNCHANGED <<messages, bus, last_send, config>>

\* mpsc::Sender::send on a reply channel whose receiver is held by an open
\* handler: the reply is queued; with the receiver dropped send returns Err.
response_tx_send(queues, open, reply) ==
    IF open[reply.client]
    THEN [queues EXCEPT ![reply.client] = Append(@, [req |-> reply.req, msg |-> reply.msg])]
    ELSE queues

HeldReply(ipc_req, msg) == [client |-> ipc_req.client, req |-> ipc_req.req, msg |-> msg]

\* handle_ipc_request with a reply channel that takes the reply at once.
handle_ipc_request(ipc_req, now, outcomes, res, save_ok) ==
    match_request(ipc_req, now, outcomes, res, save_ok,
                  LAMBDA msg : response_rx' =
                      response_tx_send(response_rx, ipc_open, HeldReply(ipc_req, msg)))

\* One iteration of the core's select on ipc_rx. The inputs a request does
\* not use are fixed so that each request is handled in one way.
CoreIpc ==
    /\ ipc_rx # <<>>
    /\ ipc_open[Head(ipc_rx).client] =>
            Len(response_rx[Head(ipc_rx).client]) + 1 <= RESPONSE_CAPACITY
    /\ LET ipc_req == Head(ipc_rx)
           request == ipc_req.request
       IN  \E now \in Timestamps :
           \E outcomes \in OutcomesFor(request) :
           \E res \in (IF request.type = "GetMessages"
                       THEN get_messages(messages, request.peer_id, request.limit, request.before)
                       ELSE {<<>>}) :
           \E save_ok \in (IF request.type \in {"SetDisplayName", "SendMessage"}
                           THEN BOOLEAN ELSE {TRUE}) :
               handle_ipc_request(ipc_req, now, outcomes, res, save_ok)
    /\ ipc_rx' = Tail(ipc_rx)
    /\ UNCHANGED <<peers, online_peers, subscribed, event_rx, sock_out, req_seq, n_reqs,
                   lag_log, ipc_open, disc_vars, mdns_log, rest_vars, call_vars, wire_vars>>

\* ------------------------------------------------------------------------
\* The steps of the tasks around the core, over a given set of inputs
\* ------------------------------------------------------------------------
BrowseStep(events) ==
    \E ev \in events : \E now \in Timestamps :
        /\ BrowseLoop(ev, now)
        /\ UNCHANGED <<mdns_log, rest_vars, store_vars, call_vars, config, online_peers, bus,
                       last_send, ipc_vars, wire_vars>>

ConnectionStep(frames) ==
    \E k \in Conns : \E msg \in frames : \E from_addr \in RemoteAddrs :
    \E write_ok \in BOOLEAN :
        /\ HandleConnection(k, msg, from_addr, write_ok)
        /\ UNCHANGED <<conn_open, last_read, conn_error, wire_in, conn_sent>>
        /\ UNCHANGED <<store_vars, call_vars, config, online_peers, bus, last_send,
                       disc_vars, mdns_log, rest_vars, ipc_vars>>

control_frame == <<store_vars, call_vars, config, online_peers, bus, last_send,
                   disc_vars, mdns_log, rest_vars, wire_vars>>

control_frame_but_lines == <<store_vars, call_vars, config, online_peers, bus, last_send,
                             disc_vars, mdns_log, bind_vars, run_vars, duel_vars, wire_vars,
                             tui_vars>>

control_frame_but_tui == <<store_vars, call_vars, config, online_peers, bus, last_send,
                           disc_vars, mdns_log, bind_vars, run_vars, duel_vars, wire_vars,
                           lines_vars>>

ReadStep(clients, lines) ==
    \E c \in clients : \E line \in lines :
        IpcRead(c, line) /\ UNCHANGED control_frame

WriteResponseStep ==
    \E c \in Clients : IpcWriteResponse(c) /\ UNCHANGED control_frame

ForwardEventStep ==
    \E c \in Clients : IpcForwardEvent(c) /\ UNCHANGED control_frame

CoreIncomingStep == \E now \in Timestamps : CoreIncoming(now)

\* ------------------------------------------------------------------------
\* Spec: the daemon with its event sources, a few inputs of each kind
\* ------------------------------------------------------------------------
SpecMdnsEvents ==
    {ServiceResolved("Cocina._familycom._tcp.local.", Some("bbb"), Some(Cocina),
                     <<"10.0.0.2", "10.0.0.3">>),
     ServiceRemoved("Cocina._familycom._tcp.local.")}
SpecFrames == {Chat(1, "bbb", Cocina, Hola, 1000), Ack(1), Ping}
SpecLines  == {Subscribe, ListPeers, SendMessage("bbb", Hola), Malformed}

Inputs == n_mdns + n_frames + n_reqs

Next ==
    \/ Inputs < MaxInputs /\ BrowseStep(SpecMdnsEvents)
    \/ Inputs < MaxInputs /\ ConnectionStep(SpecFrames)
    \/ Inputs < MaxInputs /\ ReadStep({1}, SpecLines)
    \/ WriteResponseStep
    \/ ForwardEventStep
    \/ CoreDiscovery
    \/ CoreIncomingStep
    \/ CoreIpc

Spec == Init /\ [][Next]_vars

\* ------------------------------------------------------------------------
\* SpecDiscovery: the discovery adapter and the core's discovery handler,
\* with a record of what browse_loop did with each raw event
\* ------------------------------------------------------------------------
Logged(ev) ==
    CASE ev.type = "ServiceResolved" /\ resolved_accepted(ev, LocalPeerId) ->
            [type |-> "resolved", fullname |-> ev.fullname, peer_id |-> Unwrap(ev.peer_id)]
      [] ev.type = "ServiceResolved" ->
            [type |-> "ignored", fullname |-> ev.fullname, peer_id |-> "-"]
      [] ev.type = "ServiceRemoved" ->
            [type |-> "removed", fullname |-> ev.fullname, peer_id |-> "-"]
      [] OTHER -> [type |-> "other", fullname |-> "-", peer_id |-> "-"]

DiscBrowse ==
    /\ n_mdns < MaxMdns
    /\ \E ev \in MdnsEvents : \E now \in Timestamps :
        /\ BrowseLoop(ev, now)
        /\ mdns_log' = Append(mdns_log, Logged(ev))
    /\ UNCHANGED <<store_vars, call_vars, config, online_peers, bus,
                   last_send, ipc_vars, wire_vars, rest_vars>>

DiscNext == DiscBrowse \/ CoreDiscovery

SpecDiscovery == Init /\ [][DiscNext]_vars

\* ------------------------------------------------------------------------
\* SpecSend: control clients and the core, with one peer to discover
\* ------------------------------------------------------------------------
SendMdnsEvents ==
    {ServiceResolved("Cocina._familycom._tcp.local.", Some("bbb"), Some(Cocina), a) :
        a \in {<<LinkLocal6, "10.0.0.2">>, <<"10.0.0.2", "10.0.0.3">>}}

SendLines == {Subscribe, ListPeers, Malformed, SendMessage("bbb", Hola)}

SendNext ==
    \/ n_mdns < MaxSendMdns /\ BrowseStep(SendMdnsEvents)
    \/ n_reqs < MaxReqs /\ ReadStep({1}, SendLines)
    \/ WriteResponseStep
    \/ ForwardEventStep
    \/ CoreDiscovery
    \/ CoreIpc

SpecSend == Init /\ [][SendNext]_vars

\* ------------------------------------------------------------------------
\* SpecInbound: inbound peer connections, the core and subscribers
\* ------------------------------------------------------------------------
\* The frames of the run: two identities, the same identity with two contents
\* (a retransmission and a collision), an Ack and a Ping.
InboundFrames ==
    {Chat(id, "bbb", Cocina, c, 1000) : id \in 1 .. 2, c \in {Hola, Adios}}
    \cup {Ack(1), Ping}

InboundNext ==
    \/ n_frames < MaxFrames /\ ConnectionStep(InboundFrames)
    \/ n_reqs < MaxSubs /\ ReadStep(Clients, {Subscribe})
    \/ ForwardEventStep
    \/ CoreIncomingStep

SpecInbound == Init /\ [][InboundNext]_vars

\* ------------------------------------------------------------------------
\* SpecBus: a long run of events on the bus, one subscriber that keeps up
\* and one that stalls. The peer sends Ack frames with increasing ids, so
\* that every event on the bus is different. The run is paced: clients
\* subscribe once, before the first event; a frame is read when the core has
\* taken the one before; the core publishes when the prompt subscriber has
\* caught up; the slow subscriber receives its first events as it will,
\* then stalls until it is about as far behind as the bus retains, or
\* further, and receives as it will again once the last frame is in.
\* ------------------------------------------------------------------------
MaxEarly == 2

PromptClients == {2}

Behind(c) == Len(bus) - event_rx[c]

SlowReceives(c) ==
    \/ event_rx[c] < MaxEarly
    \/ Behind(c) >= BUS_CAPACITY - 1
    \/ n_frames = MaxBusFrames

BusNext ==
    \/ bus = <<>> /\ ReadStep({c \in Clients : ~subscribed[c]}, {Subscribe})
    \/ /\ n_frames < MaxBusFrames
       /\ message_rx = <<>>
       /\ ConnectionStep({Ack(n_frames + 1)})
    \/ /\ \A c \in PromptClients : subscribed[c] => event_rx[c] = Len(bus)
       /\ CoreIncomingStep
    \/ \E c \in Clients :
          /\ c \in PromptClients \/ SlowReceives(c)
          /\ IpcForwardEvent(c)
          /\ UNCHANGED control_frame

SpecBus == Init /\ [][BusNext]_vars

\* ------------------------------------------------------------------------
\* SpecCalls: the functions of the core library and of the client, called
\* one at a time on arguments from bounded sets
\* ------------------------------------------------------------------------
MaxFnCalls == 2

\* Texts of every length class of the encoding: empty, short, two bytes for
\* one character, the longest fixstr and one more, the longest str 8 and one
\* more, one more than the longest str 16.
Letters(n) == [i \in 1 .. n |-> 97]

CodecTexts ==
    {<<>>, <<72, 111, 108, 97>>, <<195, 177>>}
    \cup {Letters(n) : n \in {31, 32, 255, 256}}

LongText == Letters(65536)

\* Timestamps at the edges of every integer form: 0, 127, 128, 255, 256,
\* 65535, 65536, 2^32 - 1, 2^32, a time of day in milliseconds, i64::MAX,
\* -1, -32, -33, -128, -129, -32768, -32769, -2^31, -2^31 - 1, i64::MIN.
CodecTimestamps ==
    { Fill(0, 8), Fill(0, 7) \o <<127>>, Fill(0, 7) \o <<128>>, Fill(0, 7) \o <<255>>,
      Fill(0, 6) \o <<1, 0>>, Fill(0, 6) \o <<255, 255>>, Fill(0, 5) \o <<1, 0, 0>>,
      Fill(0, 4) \o Fill(255, 4), Fill(0, 3) \o <<1, 0, 0, 0, 0>>,
      <<0, 0, 1, 139, 207, 229, 104, 0>>, <<127>> \o Fill(255, 7),
      Fill(255, 8), Fill(255, 7) \o <<224>>, Fill(255, 7) \o <<223>>,
      Fill(255, 7) \o <<128>>, Fill(255, 7) \o <<127>>, Fill(255, 6) \o <<128, 0>>,
      Fill(255, 6) \o <<127, 255>>, Fill(255, 4) \o <<128, 0, 0, 0>>,
      Fill(255, 4) \o <<127, 255, 255, 255>>, <<128>> \o Fill(0, 7) }

CodecMessages ==
    {Chat(<<49>>, <<98, 98, 98>>, name, content, t) :
        name \in {<<>>, <<67, 111, 99>>}, content \in CodecTexts, t \in CodecTimestamps}
    \cup {Chat(Letters(36), Letters(36), <<67, 111, 99>>, LongText,
               <<0, 0, 1, 139, 207, 229, 104, 0>>)}
    \cup {Ack(id) : id \in CodecTexts}
    \cup {Ping, Pong}

\* encode, then what a reader does with the frame: the prefix, and decode
\* of the bytes after it.
CodecCall(msg) ==
    LET frame == encode(msg) IN
    /\ fn_calls < MaxFnCalls
    /\ fn_calls' = fn_calls + 1
    /\ fn_result' = [op |-> "codec", msg |-> msg,
                     prefix |-> SubSeq(frame, 1, 4),
                     payload_len |-> Len(frame) - 4,
                     decoded |-> decode_bytes(SubSeq(frame, 5, Len(frame)))]
    /\ UNCHANGED <<store_vars, db_calls, db_result, config, online_peers, bus, last_send,
                   disc_vars, mdns_log, rest_vars, ipc_vars, wire_vars>>

CallsNext ==
    \/ \E msg \in CodecMessages : CodecCall(msg)

SpecCalls == Init /\ [][CallsNext]_vars

\* ------------------------------------------------------------------------
\* SpecWire: inbound connections reading raw streams, and the core
\* ------------------------------------------------------------------------
MaxWireReads == 3

\* Length prefixes: of the smallest frames, around the limit, the largest a
\* prefix can declare, and prefixes cut short.
PrefixPing      == <<0, 0, 0, 11>>
PrefixChat      == <<0, 0, 1, 0>>
PrefixBelow     == <<0, 15, 255, 255>>
PrefixLimit     == <<0, 16, 0, 0>>
PrefixAbove     == <<0, 16, 0, 1>>
PrefixMax       == <<255, 255, 255, 255>>
PartialPrefixes == {<<>>, <<0>>, <<0, 16, 0>>}

WireChat == Chat(1, "bbb", Cocina, Hola, 1000)

WireStreams ==
    {Stream(p, 0, e, Garbage) : p \in PartialPrefixes, e \in {"eof", "reset"}}
    \cup {Stream(<<0, 0, 0, 0>>, 0, "eof", Garbage)}
    \cup {Stream(PrefixPing, 11, "eof", pl) : pl \in {Encoded(Ping), Encoded(Pong), Garbage}}
    \cup {Stream(PrefixChat, 256, "eof", pl) :
                pl \in {Encoded(WireChat), Encoded(Ack(1)), Garbage}}
    \cup {Stream(PrefixChat, 255, e, Encoded(WireChat)) : e \in {"eof", "reset"}}
    \cup {Stream(PrefixBelow, 1048575, "eof", Garbage)}
    \cup {Stream(PrefixLimit, a, "eof", Encoded(WireChat)) : a \in {1048575, 1048576}}
    \cup {Stream(PrefixAbove, a, "eof", Garbage) : a \in {0, 1048577}}
    \cup {Stream(PrefixMax, 0, "eof", Garbage)}

WireReadStep(streams) ==
    \E k \in Conns : \E stream \in streams : \E from_addr \in RemoteAddrs :
    \E write_ok \in BOOLEAN :
        /\ HandleConnectionRead(k, stream, from_addr, write_ok)
        /\ UNCHANGED <<wire_in, conn_sent>>
        /\ UNCHANGED <<store_vars, call_vars, config, online_peers, bus, last_send,
                       disc_vars, mdns_log, rest_vars, ipc_vars>>

AcceptStep ==
    \E k \in Conns :
        /\ Accept(k)
        /\ UNCHANGED <<store_vars, call_vars, config, online_peers, bus, last_send,
                       disc_vars, mdns_log, rest_vars, ipc_vars>>

WireNext ==
    \/ n_frames < MaxWireReads /\ WireReadStep(WireStreams)
    \/ AcceptStep
    \/ CoreIncomingStep

SpecWire == Init /\ [][WireNext]_vars

\* ------------------------------------------------------------------------
\* SpecPipe: peers writing frames to their connections, the handlers
\* reading them off the bytes, and the core. Every message written has an
\* id of its own; the writes of replies succeed.
\* ------------------------------------------------------------------------
MaxPipeWrites == 3

PipeWritten == Len(conn_sent[1]) + Len(conn_sent[2])

PipeId(n) == <<48 + n>>

PipeSender(k) == <<97 + k>>

PipeMessages(k, n) ==
    { Chat(PipeId(n), PipeSender(k), <<67, 111, 99>>, <<72, 111, 108, 97>>,
           <<0, 0, 1, 139, 207, 229, 104, 0>>),
      Ack(PipeId(n)), Ping }

PipeNext ==
    \/ /\ PipeWritten < MaxPipeWrites
       /\ \E k \in Conns : \E msg \in PipeMessages(k, PipeWritten + 1) :
            /\ PeerWrite(k, msg)
            /\ UNCHANGED <<store_vars, call_vars, config, online_peers, bus, last_send,
                           disc_vars, mdns_log, rest_vars, ipc_vars>>
    \/ \E k \in Conns :
            /\ HandleConnectionBytes(k, TRUE)
            /\ UNCHANGED <<store_vars, call_vars, config, online_peers, bus, last_send,
                           disc_vars, mdns_log, rest_vars, ipc_vars>>
    \/ CoreIncomingStep

SpecPipe == Init /\ [][PipeNext]_vars

\* ------------------------------------------------------------------------
\* SpecHistory: records saved at several timestamps, and get_messages
\* called with every peer, limit and bound
\* ------------------------------------------------------------------------
MaxHistoryOps == 5

HistoryTimestamps == {1000, 2000, 3000}

HistoryMessages ==
    [id : MsgIds, peer_id : RemotePeerIds, direction : {"received"},
     content : {Hola}, timestamp : HistoryTimestamps, delivered : {TRUE}]

HistoryLimits == 0 .. 2

HistoryBounds == {NoneOpt, Some(2000), Some(3000)}

HistoryUpsertPeer(peer) ==
    /\ db_calls < MaxHistoryOps
    /\ peer.id \notin DOMAIN peers
    /\ StoreUpsertPeer(peer)

HistorySaveMessage(msg) ==
    /\ db_calls < MaxHistoryOps
    /\ msg.id = Cardinality(messages) + 1
    /\ StoreSaveMessage(msg)

\* Database::get_messages, one of the row orders the query allows.
StoreGetMessages(peer_id, limit, before) ==
    /\ db_calls < MaxHistoryOps
    /\ \E ret \in get_messages(messages, peer_id, limit, before) :
        db_result' = [op |-> "get_messages", n |-> db_calls + 1, peer_id |-> peer_id,
                      limit |-> limit, before |-> before, ret |-> ret]
    /\ db_calls' = db_calls + 1
    /\ UNCHANGED <<peers, messages, daemon_vars>>

HistoryNext ==
    \/ \E peer \in StorePeerInfos : HistoryUpsertPeer(peer)
    \/ \E msg \in HistoryMessages : HistorySaveMessage(msg)
    \/ \E peer_id \in RemotePeerIds : \E limit \in HistoryLimits :
       \E before \in HistoryBounds :
            StoreGetMessages(peer_id, limit, before)

SpecHistory == Init /\ [][HistoryNext]_vars

\* ------------------------------------------------------------------------
\* SpecSendAny: calls of client::send_to_any on address lists of every
\* length up to three, with every outcome at every address.
\* ------------------------------------------------------------------------
AnyAddresses == {<<>>, <<"10.0.0.2:9876">>, <<"10.0.0.2:9876", "10.0.0.3:9876">>,
                 <<"10.0.0.3:9876", "10.0.0.2:9876", "10.0.0.4:9876">>}

AnyOutcomes == SendOutcomes \cup {[kind |-> k] : k \in {"connect_error", "protocol_error"}}

SendAnyCall(addresses, message, outcomes) ==
    /\ fn_calls < MaxFnCalls
    /\ fn_calls' = fn_calls + 1
    /\ fn_result' = [op |-> "send_to_any", addresses |-> addresses, message |-> message,
                     outcomes |-> outcomes,
                     sent |-> send_to_any(addresses, message, outcomes)]
    /\ UNCHANGED <<store_vars, db_calls, db_result, config, online_peers, bus, last_send,
                   disc_vars, mdns_log, rest_vars, ipc_vars, wire_vars>>

SendAnyNext ==
    \/ \E addresses \in AnyAddresses :
       \E outcomes \in [1 .. Len(addresses) -> AnyOutcomes] :
            SendAnyCall(addresses, WireChat, outcomes)

SpecSendAny == Init /\ [][SendAnyNext]_vars

\* ------------------------------------------------------------------------
\* SpecBind: daemons binding the control socket path, shutting down and
\* crashing. Daemon 1 is bound at the start.
\* ------------------------------------------------------------------------
Daemons == {1, 2, 3}

MaxBinds == 3

BindsMade == IF last_bind.op = "none" THEN 0 ELSE last_bind.n

\* Whether a connection to the socket path is accepted: the path names a
\* socket and the daemon that made it still listens on it.
path_is_live(file, listening) == file # NoneOpt /\ Unwrap(file) \in listening

\* IpcServer::bind(socket_path) by daemon d: an existing file is removed,
\* then the listener is bound, which creates the file anew.
\* remove_ok: whether remove_file succeeds.
bind(file, listening, d, remove_ok) ==
    LET exists  == file # NoneOpt
        removed == exists /\ remove_ok
        ok      == ~exists \/ removed
    IN  [ok |-> ok, removed |-> removed,
         file |-> IF ok THEN Some(d) ELSE file,
         listening |-> IF ok THEN listening \cup {d} ELSE listening]

IpcBind(d, remove_ok) ==
    LET result == bind(socket_file, ipc_listening, d, remove_ok) IN
    /\ BindsMade < MaxBinds
    /\ d \notin ipc_listening
    /\ socket_file' = result.file
    /\ ipc_listening' = result.listening
    /\ last_bind' = [op |-> "bind", n |-> BindsMade + 1, daemon |-> d,
                     before |-> socket_file, after |-> result.file,
                     live |-> path_is_live(socket_file, ipc_listening),
                     removed |-> result.removed, ok |-> result.ok]

\* Drop for IpcServer: the daemon shuts down; the file at its socket path
\* is removed if there is one.
IpcDrop(d) ==
    /\ d \in ipc_listening
    /\ ipc_listening' = ipc_listening \ {d}
    /\ socket_file' = NoneOpt
    /\ UNCHANGED last_bind

\* The daemon's process ends without running Drop: the file stays.
IpcCrash(d) ==
    /\ d \in ipc_listening
    /\ ipc_listening' = ipc_listening \ {d}
    /\ UNCHANGED <<socket_file, last_bind>>

bind_frame == <<store_vars, call_vars, config, online_peers, bus, last_send, disc_vars,
                mdns_log, ipc_vars, wire_vars, run_vars, duel_vars, lines_vars, tui_vars>>

BindNext ==
    \/ \E d \in Daemons : \E remove_ok \in BOOLEAN :
            IpcBind(d, remove_ok) /\ UNCHANGED bind_frame
    \/ \E d \in Daemons : IpcDrop(d) /\ UNCHANGED bind_frame
    \/ \E d \in Daemons : IpcCrash(d) /\ UNCHANGED bind_frame

SpecBind == Init /\ [][BindNext]_vars

\* ------------------------------------------------------------------------
\* SpecRequests: one control client sending requests of every type, one
\* at a time, while peers come and go and frames arrive.
\* ------------------------------------------------------------------------
MaxRequestInputs == 3

\* The client has its replies and the core is idle.
ClientIdle == ipc_rx = <<>> /\ response_rx[1] = <<>>

RequestsNext ==
    \/ /\ Inputs < MaxRequestInputs
       /\ ClientIdle
       /\ ReadStep({1}, Lines)
    \/ /\ Inputs < MaxRequestInputs
       /\ discovery_rx = <<>>
       /\ BrowseStep(SpecMdnsEvents)
    \/ /\ Inputs < MaxRequestInputs
       /\ message_rx = <<>>
       /\ \E msg \in {Chat(3, "bbb", Cocina, Hola, 1000), Ack(1)} : \E k \in {1} :
            /\ HandleConnection(k, msg, ConnAddr(k), TRUE)
            /\ UNCHANGED <<conn_open, last_read, conn_error, wire_in, conn_sent>>
            /\ UNCHANGED <<store_vars, call_vars, config, online_peers, bus, last_send,
                           disc_vars, mdns_log, rest_vars, ipc_vars>>
    \/ CoreDiscovery
    \/ CoreIncomingStep
    \/ CoreIpc
    \/ WriteResponseStep
    \/ ForwardEventStep

SpecRequests == Init /\ [][RequestsNext]_vars

\* ------------------------------------------------------------------------
\* SpecRename: one control client setting the display name, with names
\* around the limit, padded and of two-byte characters, and reading it back
\* ------------------------------------------------------------------------
MaxRenameLines == 2

Chars(n, ch) == [i \in 1 .. n |-> ch] \o <<>>

RenameNames ==
    {Salon, Blank, <<>>, Chars(50, "a"), Chars(51, "a"), <<" ">> \o Chars(50, "a"),
     Chars(48, "a") \o <<" ", " ", " ">>, Chars(25, Enie), Chars(26, Enie)}

RenameLines == {GetConfig} \cup {SetDisplayName(name) : name \in RenameNames}

RenameNext ==
    \/ /\ n_reqs < MaxRenameLines
       /\ ClientIdle
       /\ ReadStep({1}, RenameLines)
    \/ CoreIpc
    \/ WriteResponseStep

SpecRename == Init /\ [][RenameNext]_vars

\* ------------------------------------------------------------------------
\* SpecCompose: one control client sending messages with contents around
\* the limit, blank, and of two-byte characters, to a peer that may be
\* online and to a peer never seen, until one is saved
\* ------------------------------------------------------------------------
MaxComposeLines == 2

ComposeContents ==
    {Hola, Blank, <<>>, Chars(MAX_LENGTH, "a"), Chars(MAX_LENGTH + 1, "a"),
     Chars(5001, Enie)}

ComposeLines == {SendMessage(peer_id, content) :
                    peer_id \in RemotePeerIds, content \in ComposeContents}

ComposeNext ==
    \/ /\ n_mdns < MaxSendMdns
       /\ ClientIdle
       /\ BrowseStep(SpecMdnsEvents)
    \/ /\ n_reqs < MaxComposeLines
       /\ ClientIdle
       /\ discovery_rx = <<>>
       /\ messages = {}
       /\ ReadStep({1}, ComposeLines)
    \/ CoreDiscovery
    \/ CoreIpc
    \/ WriteResponseStep

SpecCompose == Init /\ [][ComposeNext]_vars

\* ------------------------------------------------------------------------
\* SpecControl: control connections reading every kind of line, with events
\* on the bus
\* ------------------------------------------------------------------------
MaxControlLines  == 3
MaxControlFrames == 3

ControlLines == {Subscribe, ListPeers, Malformed, NotUtf8, Eof}

ControlNext ==
    \/ n_reqs < MaxControlLines /\ ReadStep(Clients, ControlLines)
    \/ /\ n_frames < MaxControlFrames
       /\ message_rx = <<>>
       /\ ConnectionStep({Ack(n_frames + 1)})
    \/ CoreIncomingStep
    \/ CoreIpc
    \/ WriteResponseStep
    \/ ForwardEventStep

SpecControl == Init /\ [][ControlNext]_vars

\* ------------------------------------------------------------------------
\* DaemonApp::run: the selection loop with its awaits, the shutdown signal,
\* and control clients that do not read their socket
\* ------------------------------------------------------------------------
SHUTDOWN_CAPACITY == 1      \* mpsc::channel::<()>(1)

\* The replies the kernel buffers for a client that does not read; a write
\* to its socket waits once that many are unread.
SocketBuffer == 1

\* The control clients that write requests and never read.
Stalled == {1}

MaxFlood      == 35    \* SpecRun: lines read from a client that does not read
MaxOtherLines == 1     \* SpecRun: lines read from each client that reads
MaxRunMdns    == 1     \* SpecRun: raw mDNS browse events
MaxRunFrames  == 1     \* SpecRun: frames read on inbound connections

\* write_all on the socket of client c completes now.
write_ready(c, out) == c \notin Stalled \/ Len(out[c]) < SocketBuffer

\* mpsc::Sender::send(..).await completes now: the channel has room, or its
\* receiver was dropped (send returns Err).
send_ready(queue, capacity, open) == ~open \/ Len(queue) < capacity

\* The ipc_rx branch of the select, up to the await of response_tx.send: the
\* request is handled; the reply is queued if the send completes at once,
\* else the core waits in the send holding it.
RunIpc ==
    /\ core_pc = "select"
    /\ ipc_rx # <<>>
    /\ LET ipc_req == Head(ipc_rx)
           request == ipc_req.request
           ready   == send_ready(response_rx[ipc_req.client], RESPONSE_CAPACITY,
                                 ipc_open[ipc_req.client])
       IN  \E now \in Timestamps :
           \E outcomes \in OutcomesFor(request) :
           \E res \in (IF request.type = "GetMessages"
                       THEN get_messages(messages, request.peer_id, request.limit, request.before)
                       ELSE {<<>>}) :
           \E save_ok \in (IF request.type \in {"SetDisplayName", "SendMessage"}
                           THEN BOOLEAN ELSE {TRUE}) :
               match_request(ipc_req, now, outcomes, res, save_ok,
                   LAMBDA msg :
                       IF ready
                       THEN /\ response_rx' = response_tx_send(response_rx, ipc_open,
                                                               HeldReply(ipc_req, msg))
                            /\ UNCHANGED <<core_pc, core_held>>
                       ELSE /\ core_pc' = "sending"
                            /\ core_held' = Some(HeldReply(ipc_req, msg))
                            /\ UNCHANGED response_rx)
    /\ ipc_rx' = Tail(ipc_rx)
    /\ UNCHANGED <<peers, online_peers, subscribed, event_rx, sock_out, req_seq, n_reqs,
                   lag_log, ipc_open, disc_vars, mdns_log, bind_vars, duel_vars, lines_vars, tui_vars, shutdown_rx,
                   writer_held, call_vars, wire_vars>>

\* The await of response_tx.send completes: the loop goes on to select again.
RunSend ==
    /\ core_pc = "sending"
    /\ LET reply == Unwrap(core_held) IN
        /\ send_ready(response_rx[reply.client], RESPONSE_CAPACITY, ipc_open[reply.client])
        /\ response_rx' = response_tx_send(response_rx, ipc_open, reply)
    /\ core_pc' = "select"
    /\ core_held' = NoneOpt
    /\ UNCHANGED <<store_vars, call_vars, config, online_peers, bus, last_send, disc_vars,
                   mdns_log, bind_vars, duel_vars, lines_vars, tui_vars, wire_vars, shutdown_rx, writer_held,
                   ipc_rx, subscribed, event_rx, sock_out, req_seq, n_reqs, lag_log,
                   ipc_open>>

\* The discovery_rx and message_rx branches: taken only by a core that selects.
RunDiscovery == core_pc = "select" /\ CoreDiscovery
RunIncoming  == core_pc = "select" /\ CoreIncomingStep

\* The shutdown_rx branch: break.
RunShutdown ==
    /\ core_pc = "select"
    /\ shutdown_rx > 0
    /\ shutdown_rx' = shutdown_rx - 1
    /\ core_pc' = "exited"
    /\ UNCHANGED <<store_vars, call_vars, config, online_peers, bus, last_send, disc_vars,
                   mdns_log, bind_vars, duel_vars, lines_vars, tui_vars, wire_vars, ipc_vars, core_held, writer_held>>

\* The Ctrl+C task or the tray's Quit: shutdown_tx.send(()).
Signal ==
    /\ shutdown_rx < SHUTDOWN_CAPACITY
    /\ core_pc # "exited"
    /\ shutdown_rx' = shutdown_rx + 1
    /\ UNCHANGED <<store_vars, call_vars, config, online_peers, bus, last_send, disc_vars,
                   mdns_log, bind_vars, duel_vars, lines_vars, tui_vars, wire_vars, ipc_vars, core_pc, core_held,
                   writer_held>>

\* The read branch of a handler that is not waiting in a write.
RunRead(c, line) ==
    /\ writer_held[c] = NoneOpt
    /\ IpcRead(c, line)
    /\ UNCHANGED control_frame

\* The response branch of a handler whose client may not be reading: the
\* reply is taken from response_rx and written; write_all waits, the handler
\* holding the reply, when the socket has no room.
RunWriteResponse(c) ==
    /\ ipc_open[c]
    /\ writer_held[c] = NoneOpt
    /\ response_rx[c] # <<>>
    /\ response_rx' = [response_rx EXCEPT ![c] = Tail(@)]
    /\ IF write_ready(c, sock_out)
       THEN /\ sock_out' = Written(c, Reply(Head(response_rx[c]).req, Head(response_rx[c]).msg))
            /\ UNCHANGED writer_held
       ELSE /\ writer_held' = [writer_held EXCEPT ![c] = Some(Head(response_rx[c]))]
            /\ UNCHANGED sock_out
    /\ UNCHANGED <<ipc_rx, subscribed, event_rx, req_seq, n_reqs, lag_log, ipc_open>>
    /\ UNCHANGED <<store_vars, call_vars, config, online_peers, bus, last_send, disc_vars,
                   mdns_log, bind_vars, duel_vars, lines_vars, tui_vars, wire_vars, core_pc, core_held, shutdown_rx>>

RunLines == {ListPeers}

\* The clients that do not read have written all their requests.
Flooded == \A c \in Stalled : req_seq[c] >= MaxFlood

RunCore == RunIpc \/ RunSend \/ RunDiscovery \/ RunIncoming \/ RunShutdown

RunNext ==
    \/ \E c \in Stalled : req_seq[c] < MaxFlood /\ \E line \in RunLines : RunRead(c, line)
    \/ \E c \in Clients \ Stalled :
            /\ Flooded
            /\ req_seq[c] < MaxOtherLines
            /\ \E line \in RunLines : RunRead(c, line)
    \/ \E c \in Clients : RunWriteResponse(c)
    \/ Flooded /\ n_mdns < MaxRunMdns /\ BrowseStep(SendMdnsEvents)
    \/ Flooded /\ n_frames < MaxRunFrames /\ ConnectionStep({Ack(1)})
    \/ Signal
    \/ RunCore

\* select! takes a ready branch at random, so a branch that stays ready or
\* becomes ready again and again is taken; a handler task runs when it can.
RunFairness ==
    /\ WF_vars(RunIpc)
    /\ WF_vars(RunSend)
    /\ WF_vars(RunDiscovery)
    /\ WF_vars(RunIncoming)
    /\ SF_vars(RunShutdown)
    /\ \A c \in Clients : WF_vars(RunWriteResponse(c))

SpecRun == Init /\ [][RunNext]_vars /\ RunFairness

\* ------------------------------------------------------------------------
\* SpecDuel: two daemons whose cores send to each other. Each daemon has its
\* core, its accept_loop and the handler accept_loop spawns for the
\* connection the other daemon makes.
\* ------------------------------------------------------------------------
MaxDuelSends == 2      \* SendMessage requests each daemon receives

Other(d)    == CHOOSE o \in Duellists : o # d
DuelName(d) == IF d = LocalPeerId THEN LocalName ELSE Cocina
DuelAddr(d) == IF d = LocalPeerId THEN <<"10.0.0.1", Port>> ELSE <<"10.0.0.2", Port>>

\* The Chat the core of d sends for its n-th SendMessage.
DuelChat(d, n) == Chat(n, d, DuelName(d), Hola, 1000)

\* A server whose accept and handlers are run by the core's loop.
server_runs_in_core(pc) == pc = "select"

\* Whether accept_loop and the handlers of a daemon can run with its core at
\* pc: main spawns accept_loop and accept_loop spawns each handler
\* (tokio::spawn), tasks of their own whatever the core awaits.
server_runs(pc) == TRUE

duel_frame == <<store_vars, call_vars, config, online_peers, bus, last_send, disc_vars,
                mdns_log, ipc_vars, wire_vars, bind_vars, run_vars, lines_vars, tui_vars>>

\* A control client's SendMessage for the other daemon reaches ipc_rx.
DuelRequest(d) ==
    /\ duel_core[d].requests < MaxDuelSends
    /\ duel_core' = [duel_core EXCEPT ![d].requests = @ + 1]
    /\ UNCHANGED <<duel_conn, duel_rx, duel_frame>>

\* The ipc_rx branch of the core of d on a SendMessage, up to the read of
\* the reply in send_message: TcpStream::connect (the connection is made
\* with the listener's backlog, before any accept) and write_message of the
\* Chat. A daemon has one connection from the other at a time here.
DuelSend(d) ==
    /\ duel_core[d].pc = "select"
    /\ duel_core[d].sends < duel_core[d].requests
    /\ duel_conn[Other(d)].state = "none"
    /\ duel_conn' = [duel_conn EXCEPT ![Other(d)] =
                        [state |-> "backlog", dropped |-> FALSE,
                         rx |-> <<DuelChat(d, duel_core[d].sends + 1)>>, tx |-> <<>>]]
    /\ duel_core' = [duel_core EXCEPT ![d].pc = "wait_ack", ![d].sends = @ + 1]
    /\ UNCHANGED <<duel_rx, duel_frame>>

\* accept_loop of daemon o: the connection is accepted, its handler spawned.
DuelAccept(o) ==
    /\ duel_conn[o].state = "backlog"
    /\ server_runs(duel_core[o].pc)
    /\ duel_conn' = [duel_conn EXCEPT ![o].state = "open"]
    /\ UNCHANGED <<duel_core, duel_rx, duel_frame>>

\* One iteration of handle_connection at daemon o on a frame: the reply is
\* written, then the frame forwarded to the core's channel.
DuelHandle(o) ==
    /\ duel_conn[o].state = "open"
    /\ duel_conn[o].rx # <<>>
    /\ server_runs(duel_core[o].pc)
    /\ Len(duel_rx[o]) + 1 <= MESSAGE_CAPACITY
    /\ LET msg == Head(duel_conn[o].rx) IN
        /\ duel_conn' = [duel_conn EXCEPT
                            ![o].rx = Tail(@),
                            ![o].tx = IF duel_conn[o].dropped THEN @
                                      ELSE @ \o connection_reply(msg)]
        /\ duel_rx' = [duel_rx EXCEPT ![o] =
                          IF connection_forwards(msg)
                          THEN channel_send(@, [message |-> msg,
                                                from_addr |-> DuelAddr(Other(o))])
                          ELSE @]
    /\ UNCHANGED <<duel_core, duel_frame>>

\* read_message of the handler at o finds the end of the stream: the other
\* side dropped the connection; the handler returns.
DuelHandlerEnds(o) ==
    /\ duel_conn[o].state = "open"
    /\ duel_conn[o].rx = <<>>
    /\ duel_conn[o].dropped
    /\ server_runs(duel_core[o].pc)
    /\ duel_conn' = [duel_conn EXCEPT ![o] = NoConnection]
    /\ UNCHANGED <<duel_core, duel_rx, duel_frame>>

\* send_message of d returns with outcome: the stream is dropped, the core
\* makes its reply and selects again.
DuelReturn(d, outcome) ==
    /\ duel_core' = [duel_core EXCEPT
                        ![d].pc = "select",
                        ![d].results = Append(@,
                            send_message(DuelAddr(Other(d)),
                                         DuelChat(d, duel_core[d].sends), outcome))]
    /\ duel_conn' = [duel_conn EXCEPT ![Other(d)].dropped = TRUE, ![Other(d)].tx = <<>>]
    /\ UNCHANGED <<duel_rx, duel_frame>>

\* The read of the reply in send_message of d completes with a frame.
DuelReadReply(d) ==
    /\ duel_core[d].pc = "wait_ack"
    /\ duel_conn[Other(d)].tx # <<>>
    /\ DuelReturn(d, [kind |-> "response", frame |-> Head(duel_conn[Other(d)].tx)])

\* ACK_TIMEOUT elapses with nothing to read.
DuelAckTimeout(d) ==
    /\ duel_core[d].pc = "wait_ack"
    /\ duel_conn[Other(d)].tx = <<>>
    /\ DuelReturn(d, [kind |-> "ack_timeout"])

\* The message_rx branch of the core of d.
DuelIncoming(d) ==
    /\ duel_core[d].pc = "select"
    /\ duel_rx[d] # <<>>
    /\ duel_core' = [duel_core EXCEPT ![d].received = Append(@, Head(duel_rx[d]).message)]
    /\ duel_rx' = [duel_rx EXCEPT ![d] = Tail(@)]
    /\ UNCHANGED <<duel_conn, duel_frame>>

\* The steps of the server tasks of daemon o, and those of the core of d.
DuelServer(o) == DuelAccept(o) \/ DuelHandle(o) \/ DuelHandlerEnds(o)
DuelCore(d)   == DuelSend(d) \/ DuelReadReply(d) \/ DuelIncoming(d)

DuelNext ==
    \E d \in Duellists :
        \/ DuelRequest(d)
        \/ DuelCore(d)
        \/ DuelAckTimeout(d)
        \/ DuelServer(d)

\* Every task runs when it can; a timeout need not elapse.
DuelFairness ==
    \A d \in Duellists : WF_vars(DuelCore(d)) /\ WF_vars(DuelServer(d))

SpecDuel == Init /\ [][DuelNext]_vars /\ DuelFairness

\* ------------------------------------------------------------------------
\* SpecReadLine: handle_ipc_client on a socket whose lines can arrive in two
\* pieces, the select! making a new read_line future in every iteration
\* ------------------------------------------------------------------------
MaxLineWrites == 2     \* lines a client writes
MaxLineFrames == 1     \* frames read on inbound connections

\* What the client puts on the socket in one write: a whole line, the first
\* bytes of a line, or the rest of it with the newline.
Piece(line, part) == [line |-> line, part |-> part]

Unfinished(c) ==
    client_wrote[c] # <<>> /\ ~client_wrote[c][Len(client_wrote[c])].done

\* The client writes a line, whole or its first bytes only.
ClientWrite(c, line, whole) ==
    /\ Len(client_wrote[c]) < MaxLineWrites
    /\ ~Unfinished(c)
    /\ client_wrote' = [client_wrote EXCEPT ![c] = Append(@, [line |-> line, done |-> whole])]
    /\ sock_in' = [sock_in EXCEPT ![c] =
                      Append(@, Piece(line, IF whole THEN "whole" ELSE "head"))]
    /\ UNCHANGED <<read_future, control_frame_but_lines, ipc_vars>>

\* The client writes the rest of the line it began.
ClientWriteRest(c) ==
    /\ Unfinished(c)
    /\ client_wrote' = [client_wrote EXCEPT ![c][Len(client_wrote[c])].done = TRUE]
    /\ sock_in' = [sock_in EXCEPT ![c] =
                      Append(@, Piece(client_wrote[c][Len(client_wrote[c])].line, "tail"))]
    /\ UNCHANGED <<read_future, control_frame_but_lines, ipc_vars>>

\* read_line is polled when the socket holds bytes and no newline: the
\* bytes move from the BufReader into the future's buffer and the future
\* stays pending.
IpcPollRead(c) ==
    /\ ipc_open[c]
    /\ Len(sock_in[c]) = 1
    /\ Head(sock_in[c]).part = "head"
    /\ read_future' = [read_future EXCEPT ![c] = Some(Head(sock_in[c]).line)]
    /\ sock_in' = [sock_in EXCEPT ![c] = Tail(@)]
    /\ UNCHANGED <<client_wrote, control_frame_but_lines, ipc_vars>>

\* The line read_line returns when the newline arrives: the bytes its future
\* holds followed by those up to the newline. The rest of a request without
\* its first bytes is no request.
line_read(future, piece) ==
    IF piece.part = "whole" \/ future = Some(piece.line) THEN piece.line ELSE Malformed

\* The read branch completes with a line: the socket holds a newline. A
\* line whose two pieces are both there is read as one.
IpcReadLine(c) ==
    /\ sock_in[c] # <<>>
    /\ IF Head(sock_in[c]).part = "head"
       THEN /\ Len(sock_in[c]) >= 2
            /\ IpcRead(c, Head(sock_in[c]).line)
            /\ sock_in' = [sock_in EXCEPT ![c] = Tail(Tail(@))]
       ELSE /\ IpcRead(c, line_read(read_future[c], Head(sock_in[c])))
            /\ sock_in' = [sock_in EXCEPT ![c] = Tail(@)]
    /\ read_future' = [read_future EXCEPT ![c] = NoneOpt]
    /\ UNCHANGED <<client_wrote, control_frame_but_lines>>

\* Another branch of the select! completes: the futures of the other
\* branches are dropped, the read_line future with the bytes it holds.
select_drops(future) == NoneOpt

LinesWriteResponse(c) ==
    /\ IpcWriteResponse(c)
    /\ read_future' = [read_future EXCEPT ![c] = select_drops(@)]
    /\ UNCHANGED <<sock_in, client_wrote, control_frame_but_lines>>

LinesForwardEvent(c) ==
    /\ IpcForwardEvent(c)
    /\ read_future' = [read_future EXCEPT ![c] = select_drops(@)]
    /\ UNCHANGED <<sock_in, client_wrote, control_frame_but_lines>>

WrittenLines == {ListPeers, Subscribe}

LinesHandler(c) ==
    IpcPollRead(c) \/ IpcReadLine(c) \/ LinesWriteResponse(c) \/ LinesForwardEvent(c)

LinesNext ==
    \/ \E line \in WrittenLines : \E whole \in BOOLEAN : ClientWrite(1, line, whole)
    \/ ClientWriteRest(1)
    \/ LinesHandler(1)
    \/ /\ n_frames < MaxLineFrames
       /\ ConnectionStep({Ack(1)})
    \/ CoreIncomingStep
    \/ CoreIpc

\* The handler and the core run when they can.
LinesFairness ==
    /\ WF_vars(LinesHandler(1))
    /\ WF_vars(CoreIncomingStep)
    /\ WF_vars(CoreIpc)

SpecReadLine == Init /\ [][LinesNext]_vars /\ LinesFairness

\* ------------------------------------------------------------------------
\* SpecTui: the terminal client (crates/familycom) as control client 1 of
\* the daemon, with one peer to discover and Acks of stored messages
\* arriving on inbound connections
\* ------------------------------------------------------------------------
MaxTuiInputs == 6   \* raw mDNS events, inbound frames and control lines, in total

\* What the client writes before its main loop starts.
StartupLines == <<Subscribe, GetConfig, ListPeers>>
STARTUP_READS == 2

\* The identities MessageId::generate can give the client for its own copy
\* of a message: random UUIDs, made without the daemon.
TuiIds == 1 .. 2

FETCH_LIMIT == 100

Reverse(s) == [i \in 1 .. Len(s) |-> s[Len(s) + 1 - i]]

\* messages.iter_mut().find(|m| m.id == message_id), then delivered = true.
mark_found(list, id) ==
    LET hits  == {i \in 1 .. Len(list) : list[i].id = id}
        first == CHOOSE i \in hits : \A j \in hits : i <= j
    IN  IF hits = {} THEN list ELSE [list EXCEPT ![first].delivered = TRUE]

\* TuiApp::handle_server_message, for the peers and the messages of the
\* application: the states it can leave them in. MessageDelivered stops at
\* the first map entry that holds the id, in the order of a HashMap.
handle_server_message(app, msg) ==
    CASE msg.type = "PeerList" ->
            {[app EXCEPT !.peers = {p.id : p \in msg.peers}]}
      [] msg.type = "Messages" ->
            {IF DOMAIN msg.messages = {} THEN app
             ELSE [app EXCEPT !.messages[msg.messages[1].peer_id] = Reverse(msg.messages)]}
      [] msg.type = "NewMessage" ->
            {[app EXCEPT !.messages[msg.message.peer_id] = Append(@, msg.message)]}
      [] msg.type = "MessageSent" -> {app}
      [] msg.type = "PeerOnline" ->
            {[app EXCEPT !.peers = @ \cup {msg.peer.id}]}
      [] msg.type = "MessageDelivered" ->
            LET holders == {p \in PeerIds :
                               \E i \in 1 .. Len(app.messages[p]) :
                                   app.messages[p][i].id = msg.message_id}
            IN  IF holders = {} THEN {app}
                ELSE {[app EXCEPT !.messages[p] = mark_found(@, msg.message_id)] :
                         p \in holders}
      [] OTHER -> {app}

\* The opening of the connection: Subscribe, GetConfig and ListPeers, in
\* that order, each read by the daemon's handler.
TuiStartup ==
    /\ tui_client.wrote < Len(StartupLines)
    /\ IpcRead(1, StartupLines[tui_client.wrote + 1])
    /\ tui_client' = [tui_client EXCEPT !.wrote = @ + 1]
    /\ UNCHANGED <<tui_app, control_frame_but_tui>>

\* handle_send_message of the client: the copy for the display, with an
\* identity of the client's own making, then the SendMessage line, which the
\* daemon's handler reads; sends notes which request the copy belongs to.
TuiSendMessage ==
    /\ tui_client.wrote = Len(StartupLines)
    /\ \E peer_id \in tui_app.peers : \E id \in TuiIds : \E now \in Timestamps :
        /\ \A p \in PeerIds : \A i \in 1 .. Len(tui_app.messages[p]) :
                tui_app.messages[p][i].id # id
        /\ tui_app' = [tui_app EXCEPT !.messages[peer_id] =
                          Append(@, sent_record(id, peer_id, Hola, now))]
        /\ tui_client' = [tui_client EXCEPT !.sends =
                          Append(@, [local |-> id, req |-> req_seq[1] + 1])]
        /\ IpcRead(1, SendMessage(peer_id, Hola))
        /\ UNCHANGED control_frame_but_tui

\* client.recv(): the next message on the socket goes to
\* handle_server_message. In the main loop a PeerList is followed by
\* fetch_selected_peer_messages, the history of the selected peer; the two
\* reads before the main loop fetch nothing, and a read that timed out there
\* leaves its message to the main loop.
TuiRecv ==
    /\ tui_client.wrote = Len(StartupLines)
    /\ tui_client.read < Len(sock_out[1])
    /\ LET msg == sock_out[1][tui_client.read + 1].msg IN
       \E in_loop \in (IF tui_client.read < STARTUP_READS THEN BOOLEAN ELSE {TRUE}) :
        /\ tui_app' \in handle_server_message(tui_app, msg)
        /\ tui_client' = [tui_client EXCEPT !.read = @ + 1]
        /\ IF in_loop /\ msg.type = "PeerList" /\ tui_app'.peers # {} /\ ipc_open[1]
           THEN \E peer_id \in tui_app'.peers :
                    IpcRead(1, GetMessages(peer_id, FETCH_LIMIT, NoneOpt))
           ELSE UNCHANGED ipc_vars
    /\ UNCHANGED control_frame_but_tui

TuiNext ==
    \/ TuiStartup
    \/ Inputs < MaxTuiInputs /\ ClientIdle /\ TuiSendMessage
    \/ TuiRecv
    \/ /\ Inputs < MaxTuiInputs
       /\ peers = <<>>
       /\ BrowseStep({ServiceResolved("Cocina._familycom._tcp.local.", Some("bbb"),
                                      Some(Cocina), <<"10.0.0.2">>)})
    \/ /\ Inputs < MaxTuiInputs
       /\ message_rx = <<>>
       /\ \E msg \in {Ack(r.id) : r \in messages} : \E k \in {1} :
            /\ HandleConnection(k, msg, ConnAddr(k), TRUE)
            /\ UNCHANGED <<conn_open, last_read, conn_error, wire_in, conn_sent>>
            /\ UNCHANGED <<store_vars, call_vars, config, online_peers, bus, last_send,
                           disc_vars, mdns_log, rest_vars, ipc_vars>>
    \/ CoreDiscovery
    \/ CoreIncomingStep
    \/ CoreIpc
    \/ WriteResponseStep
    \/ ForwardEventStep

SpecTui == Init /\ [][TuiNext]_vars

\* ------------------------------------------------------------------------
\* SpecStrangers: Chats from two senders, known from discovery or not, and
\* messages sent to a discovered peer
\* ------------------------------------------------------------------------
MaxStrangerInputs == 3   \* raw mDNS events, inbound frames and control lines, in total

StrangerFrames ==
    {Chat(id, sender, Cocina, Hola, 1000) : id \in 1 .. 2, sender \in RemotePeerIds}

StrangersNext ==
    \/ Inputs < MaxStrangerInputs /\ BrowseStep(SendMdnsEvents)
    \/ Inputs < MaxStrangerInputs /\ ConnectionStep(StrangerFrames)
    \/ Inputs < MaxStrangerInputs /\ ReadStep({1}, {SendMessage("bbb", Hola)})
    \/ CoreDiscovery
    \/ CoreIncomingStep
    \/ CoreIpc

SpecStrangers == Init /\ [][StrangersNext]_vars

\* ------------------------------------------------------------------------
\* Properties of the send path (checked under SpecSend)
\* ------------------------------------------------------------------------
\* The step in which the core made a send_to_any, and what it was.
SendStep       == last_send'.n = last_send.n + 1
Sent           == last_send.n > 0
LastAttempt    == last_send.attempts[Len(last_send.attempts)]
SentRow(msgs)  == {r \in msgs : r.id = last_send.id}
RepliesOf(c)   == SelectSeq(sock_out[c], LAMBDA e : e.kind = "reply")

\* Nothing is left for any task of the daemon to do: every channel is empty
\* and every subscriber has been forwarded the whole bus.
Quiescent ==
    /\ discovery_rx = <<>> /\ message_rx = <<>> /\ ipc_rx = <<>>
    /\ \A c \in Clients :
        response_rx[c] = <<>> /\ (subscribed[c] => event_rx[c] = Len(bus))

\* C1: a send of Chat{id} succeeds only when the frame read back is an Ack
\* whose message_id is id; when the frame read back on the last attempt is an
\* Ack of another id, or not an Ack, the send returns UnexpectedResponse and
\* the record is not marked delivered.
C1_SucceedsOnlyOnMatchingAck ==
    Sent =>
        /\ last_send.result = "Ok" =>
                /\ LastAttempt.outcome.kind = "response"
                /\ LastAttempt.outcome.frame = Ack(last_send.id)
        /\ (/\ LastAttempt.outcome.kind = "response"
            /\ LastAttempt.outcome.frame # Ack(last_send.id)) =>
                /\ last_send.result = "UnexpectedResponse"
                /\ \A r \in SentRow(messages) : ~r.delivered

\* C2: once a SendMessage was acknowledged and the daemon has nothing left to
\* do, every client subscribed at the time of the send has been written a
\* MessageDelivered event with the id MessageSent carried.
C2_SubscribersSeeDelivered ==
    (Sent /\ last_send.result = "Ok" /\ Quiescent) =>
        \A c \in last_send.subscribers :
            \E i \in 1 .. Len(sock_out[c]) :
                sock_out[c][i] = Event(MessageDelivered(last_send.id))

\* The reply the core queues in the step for the request at the head of ipc_rx.
QueuedReply(msg) ==
    response_rx' = [response_rx EXCEPT ![Head(ipc_rx).client] =
                        Append(@, [req |-> Head(ipc_rx).req, msg |-> msg])]

\* C5: when every outbound attempt of a SendMessage fails, the step leaves the
\* sent record in the store with delivered=false, queues MessageSent with that
\* record's id for the client, and publishes nothing; the record then stays
\* undelivered and no MessageDelivered for its id is on the bus.
C5_FailedSendKeepsRecord ==
    /\ [][(SendStep /\ last_send'.result # "Ok") =>
            /\ \E r \in messages' :
                    r.id = last_send'.id /\ r.direction = "sent" /\ ~r.delivered
            /\ \A r \in messages' : r.id = last_send'.id => ~r.delivered
            /\ QueuedReply(MessageSent(last_send'.id))
            /\ bus' = bus]_vars
    /\ []((Sent /\ last_send.result # "Ok") =>
            /\ \E r \in SentRow(messages) : ~r.delivered
            /\ \A i \in 1 .. Len(bus) : bus[i] # MessageDelivered(last_send.id))

C5_Witness ==
    /\ Sent
    /\ Len(last_send.attempts) = 2
    /\ \A i \in 1 .. 2 : last_send.attempts[i].outcome.kind \in {"connect_timeout", "ack_timeout"}
    /\ \E i \in 1 .. Len(sock_out[1]) :
            sock_out[1][i] = Reply(sock_out[1][i].req, MessageSent(last_send.id))
    /\ \E r \in SentRow(messages) : ~r.delivered

C7_RepliesInRequestOrder ==
    \A c \in Clients : \A i, j \in 1 .. Len(RepliesOf(c)) :
        i < j => RepliesOf(c)[i].req < RepliesOf(c)[j].req

\* ------------------------------------------------------------------------
\* Properties of the event bus (checked under SpecBus)
\* ------------------------------------------------------------------------
\* The events written to client c, in the order written.
EventsOf(c) ==
    LET IsEvent(entry) == entry.kind = "event"
        written == SelectSeq(sock_out[c], IsEvent)
    IN  [i \in 1 .. Len(written) |-> written[i].msg]

\* The place on the bus of an event: in SpecBus the i-th event published is
\* MessageDelivered(i).
BusIndex(ev) == ev.message_id

BusIsNumbered == \A i \in 1 .. Len(bus) : bus[i] = MessageDelivered(i)

Lagged(c) == lag_log[c] # <<>>

IsPrefix(s, t) == Len(s) <= Len(t) /\ s = SubSeq(t, 1, Len(s))

RECURSIVE SumSeq(_)
SumSeq(s) == IF s = <<>> THEN 0 ELSE Head(s) + SumSeq(Tail(s))

\* The events written to c are the first `before` events of the bus, then,
\* `lost` events further, the events up to the receiver's position.
WrittenAround(c, before, lost) ==
    EventsOf(c) = SubSeq(bus, 1, before) \o SubSeq(bus, before + lost + 1, event_rx[c])

\* C13: a subscriber that falls more than the capacity of the bus behind
\* gets a lag signal whose count is the number of events it lost (what it
\* was written and what it lost add up to what it has passed), and is then
\* written the retained events in order (after one signal: the events
\* before the loss, then those after it, none missing); its handler keeps
\* running, and the subscriber that kept up lost nothing.
C13_LagCountsLoss ==
    /\ \A c \in Clients :
        /\ ipc_open[c]
        /\ Len(EventsOf(c)) + SumSeq(lag_log[c]) = event_rx[c]
        /\ \A i \in 1 .. Len(lag_log[c]) : lag_log[c][i] > 0
        /\ Len(lag_log[c]) = 1 =>
                \E before \in 0 .. Len(EventsOf(c)) :
                    WrittenAround(c, before, lag_log[c][1])
    /\ \A c \in PromptClients : ~Lagged(c) /\ IsPrefix(EventsOf(c), bus)

\* The slow subscriber was written nothing until the bus held two events
\* more than it retains: it lost two and was then written the others, while
\* the prompt subscriber was written every event.
C13_Witness ==
    /\ lag_log[1] = <<2>>
    /\ Len(EventsOf(1)) = BUS_CAPACITY
    /\ ipc_open[1]
    /\ EventsOf(2) = bus /\ Len(bus) = BUS_CAPACITY + 2

\* ------------------------------------------------------------------------
\* Properties of the control connections (checked under SpecControl)
\* ------------------------------------------------------------------------
\* Lines that cannot be decoded as a request: text that is no request, and
\* bytes that are no text.
UndecodableLines == {Malformed, NotUtf8}

\* The handler of c reads `line` in this step.
Reads(c, line) == IpcRead(c, line) /\ UNCHANGED control_frame

\* C14: when a handler reads a line that cannot be decoded as a request, it
\* writes Error invalid_request to that connection, puts nothing on the
\* channel to the core, keeps running, and is otherwise in the state it was
\* in before the line (so that later requests are handled as if the line
\* had not been sent).
C14_UndecodableLineAnswered ==
    [][\A c \in Clients : \A line \in UndecodableLines :
        Reads(c, line) =>
            /\ sock_out'[c] =
                  Append(sock_out[c], Reply(req_seq'[c], Error("invalid_request")))
            /\ ipc_open'[c]
            /\ UNCHANGED <<ipc_rx, response_rx, subscribed, event_rx>>]_vars

\* The events written to c are a run of the bus without gap or repeat that
\* ends where its receiver stands.
GaplessRun(c) ==
    LET evs == EventsOf(c) IN
    /\ Len(evs) <= event_rx[c]
    /\ evs = SubSeq(bus, event_rx[c] - Len(evs) + 1, event_rx[c])

\* C15: a Subscribe is answered Ok by the handler and never put on the
\* channel to the core; a repeated Subscribe leaves the receiver where it
\* is; so whatever the number of Subscribe requests, the events written to
\* a client are consecutive events of the bus (all different), each once.
C15_SubscribeIdempotent ==
    /\ [](/\ \A i \in 1 .. Len(ipc_rx) : ipc_rx[i].request.type # "Subscribe"
          /\ BusIsNumbered
          /\ \A c \in Clients : GaplessRun(c))
    /\ [][\A c \in Clients :
            Reads(c, Subscribe) =>
                /\ sock_out'[c] = Append(sock_out[c], Reply(req_seq'[c], Ok))
                /\ subscribed'[c]
                /\ subscribed[c] => event_rx'[c] = event_rx[c]
                /\ ipc_rx' = ipc_rx]_vars

\* A client that subscribed twice, with an event before its second Subscribe
\* and one after, and was written each event once.
C15_Witness ==
    sock_out[1] = <<Reply(1, Ok), Event(MessageDelivered(1)),
                    Reply(2, Ok), Event(MessageDelivered(2))>>

\* ------------------------------------------------------------------------
\* Properties of the inbound connections (checked under SpecWire)
\* ------------------------------------------------------------------------
\* The handler of connection k has read message msg in this step.
ReadsMessage(k, msg) ==
    /\ last_read'.n = n_frames + 1
    /\ last_read'.conn = k
    /\ last_read'.result.msg = Some(msg)

WireMessages == {WireChat, Ack(1), Ping, Pong}

Forwarded(msg) ==
    /\ Len(message_rx') = Len(message_rx) + 1
    /\ message_rx'[Len(message_rx')].message = msg

\* C16: a step that puts a Chat on the channel to the core has written the
\* Ack with its message_id to the connection it was read from; and every
\* received record stored with delivered = TRUE has its Ack among the frames
\* written to some connection.
C16_AckBeforeForward ==
    /\ [][\A k \in Conns :
            ReadsMessage(k, WireChat) /\ Forwarded(WireChat) =>
                conn_out'[k] = Append(conn_out[k], Ack(WireChat.id))]_vars
    /\ [](\A m \in messages :
            m.direction = "received" /\ m.delivered =>
                \E k \in Conns : Ack(m.id) \in Range(conn_out[k]))

\* C17: a handler that reads a Ping writes a Pong to the same connection
\* (when the write succeeds) and forwards nothing; one that reads a Pong
\* writes nothing and forwards nothing; one that reads an Ack forwards it
\* and writes nothing; so the channel to the core never holds a Ping or a
\* Pong.
C17_PingPongStayOut ==
    /\ [](\A i \in 1 .. Len(message_rx) :
            message_rx[i].message.type \notin {"Ping", "Pong"})
    /\ [][\A k \in Conns :
            /\ ReadsMessage(k, Ping) =>
                  /\ message_rx' = message_rx
                  /\ \A j \in Conns \ {k} : conn_out'[j] = conn_out[j]
                  /\ conn_out'[k] = IF last_read'.write_ok
                                    THEN Append(conn_out[k], Pong)
                                    ELSE conn_out[k]
            /\ ReadsMessage(k, Pong) =>
                  message_rx' = message_rx /\ conn_out' = conn_out
            /\ ReadsMessage(k, Ack(1)) =>
                  Forwarded(Ack(1)) /\ conn_out' = conn_out]_vars

\* A connection on which a Ping was answered, an Ack forwarded and a Pong
\* dropped.
C17_Witness ==
    /\ conn_out[1] = <<Pong>>
    /\ Len(message_rx) = 1 /\ message_rx[1].message = Ack(1)
    /\ last_read.n = 3 /\ last_read.conn = 1 /\ last_read.result.msg = Some(Pong)

FramingErrors == {"FrameTooLarge", "Io", "Decode"}

\* The read of the handler of connection k fails in this step with a framing
\* or decode error.
ReadFails(k) ==
    /\ last_read'.n = n_frames + 1
    /\ last_read'.conn = k
    /\ last_read'.result.kind \in FramingErrors

\* C19: a read that fails with a framing or decode error ends the handler
\* of its connection and no other, and puts nothing on the channel to the
\* core; a connection can be accepted in its place; and while any handler
\* has ended on such an error, a Chat read on another connection is
\* forwarded to the core and acknowledged (when the write succeeds) by a
\* handler that goes on running.
C19_ErrorEndsOnlyItsHandler ==
    /\ [][\A k \in Conns :
            /\ ReadFails(k) =>
                  /\ ~conn_open'[k]
                  /\ \A j \in Conns \ {k} : conn_open'[j] = conn_open[j]
                  /\ message_rx' = message_rx /\ conn_out' = conn_out
            /\ ( /\ ReadsMessage(k, WireChat)
                 /\ \E j \in Conns \ {k} :
                        IsSome(conn_error[j]) /\ Unwrap(conn_error[j]) \in FramingErrors ) =>
                  /\ Forwarded(WireChat)
                  /\ last_read'.write_ok =>
                        conn_out'[k] = Append(conn_out[k], Ack(WireChat.id))
                  /\ conn_open'[k]]_vars
    /\ [](\A k \in Conns : ~conn_open[k] => ENABLED Accept(k))

\* The handler of connection 1 has ended on an oversize frame; after that,
\* a Chat on connection 2 was acknowledged and forwarded.
C19_Witness ==
    /\ conn_error[1] = Some("FrameTooLarge") /\ ~conn_open[1]
    /\ last_read.n = 2 /\ last_read.conn = 2 /\ last_read.result.msg = Some(WireChat)
    /\ conn_out[2] = <<Ack(1)>> /\ conn_open[2]
    /\ Len(message_rx) = 1 /\ message_rx[1].message = WireChat

\* The length a whole prefix declares, read off its bytes: whether it is
\* above 1 048 576 = 0x00100000, and its value when it is not.
DeclaredAboveLimit(p) == p[1] > 0 \/ p[2] > 16 \/ (p[2] = 16 /\ (p[3] > 0 \/ p[4] > 0))

Declared(p) == p[2] * 65536 + p[3] * 256 + p[4]

WholePrefixRead == last_read.n > 0 /\ Len(last_read.stream.prefix) = 4

\* C18: a read whose prefix declares more than 1 048 576 bytes fails with
\* FrameTooLarge and reads nothing of the payload; a read whose prefix
\* declares that much or less is not FrameTooLarge, and reads the declared
\* payload (as much of it as arrives).
C18_TooLargeIffAboveLimit ==
    WholePrefixRead =>
        LET p == last_read.stream.prefix
            result == last_read.result
        IN  IF DeclaredAboveLimit(p)
            THEN result.kind = "FrameTooLarge" /\ result.payload_read = 0
            ELSE /\ result.kind \in {"Ok", "Decode", "Io"}
                 /\ result.payload_read = Min(Declared(p), last_read.stream.avail)
                 /\ result.kind = "Io" <=> last_read.stream.avail < Declared(p)

\* A frame of exactly the limit was read whole and decoded, after one of a
\* byte more was rejected on another connection.
C18_Witness ==
    /\ WholePrefixRead
    /\ last_read.stream.prefix = PrefixLimit
    /\ last_read.result.kind = "Ok" /\ last_read.result.payload_read = MAX_FRAME_SIZE
    /\ \E k \in Conns : ~conn_open[k] /\ k # last_read.conn

\* C20: a read fails with ConnectionClosed only when the stream ended
\* before any byte of the prefix; when it ends after one to three bytes of
\* the prefix, or within the payload, the read fails with another error.
C20_ClosedOnlyBeforePrefix ==
    last_read.n > 0 =>
        LET stream == last_read.stream
            result == last_read.result
            Cut == \/ Len(stream.prefix) \in 1 .. 3
                   \/ /\ Len(stream.prefix) = 4
                      /\ ~DeclaredAboveLimit(stream.prefix)
                      /\ stream.avail < Declared(stream.prefix)
        IN  /\ result.kind = "ConnectionClosed" => stream.prefix = <<>>
            /\ Cut => result.kind \notin {"Ok", "ConnectionClosed"}

\* ------------------------------------------------------------------------
\* Properties of the functions (checked under SpecCalls)
\* ------------------------------------------------------------------------
CalledIs(op) == fn_calls > 0 /\ fn_result.op = op

\* C21: for every message, decoding the payload of its frame gives the
\* message back, and the four bytes before the payload, read as a
\* big-endian unsigned integer, are the number of payload bytes.
C21_RoundTrip ==
    CalledIs("codec") =>
        /\ fn_result.decoded = Decoded(fn_result.msg)
        /\ ~frame_too_large(from_be_bytes(fn_result.prefix))
        /\ as_usize(from_be_bytes(fn_result.prefix)) = fn_result.payload_len

\* A Chat whose content takes the longest string form and whose timestamp
\* takes the longest integer form came back from its frame.
C21_Witness ==
    /\ CalledIs("codec")
    /\ fn_result.msg.type = "Chat"
    /\ fn_result.msg.content = LongText
    /\ fn_result.decoded = Decoded(fn_result.msg)
    /\ fn_result.payload_len > 65536

\* ------------------------------------------------------------------------
\* Properties of the inbound path (checked under SpecInbound)
\* ------------------------------------------------------------------------
NewMessagesOf(c, id) ==
    {i \in 1 .. Len(sock_out[c]) :
        /\ sock_out[c][i].kind = "event"
        /\ sock_out[c][i].msg.type = "NewMessage"
        /\ sock_out[c][i].msg.message.id = id}

\* C3: whatever frames arrive, no subscriber is written NewMessage twice for
\* one message id.
C3_NewMessageOnce ==
    \A c \in Clients : \A id \in MsgIds : Cardinality(NewMessagesOf(c, id)) <= 1

\* ------------------------------------------------------------------------
\* Properties of the whole daemon (checked under Spec)
\* ------------------------------------------------------------------------
\* C9: whatever step the daemon takes, a stored record that is delivered is
\* still stored and delivered after the step.
C9_DeliveredNeverReset ==
    [][\A r \in messages : r.delivered =>
            /\ \E r2 \in messages' : r2.id = r.id
            /\ \A r2 \in messages' : r2.id = r.id => r2.delivered]_vars

\* A record stored as delivered, an Ack frame for its id handled after that,
\* and the record still delivered.
C9_Witness ==
    \E r \in messages : \E i, j \in 1 .. Len(bus) :
        /\ r.delivered
        /\ i < j
        /\ bus[i] = NewMessage(r)
        /\ bus[j] = MessageDelivered(r.id)

\* ------------------------------------------------------------------------
\* Properties of discovery (checked under SpecDiscovery)
\* ------------------------------------------------------------------------
ResolvedAt(i, fullname) ==
    mdns_log[i].type = "resolved" /\ mdns_log[i].fullname = fullname
RemovedAt(i, fullname) ==
    mdns_log[i].type = "removed" /\ mdns_log[i].fullname = fullname

\* A removal of a label that was resolved before it and not removed since.
KnownRemovals ==
    {j \in 1 .. Len(mdns_log) :
        /\ mdns_log[j].type = "removed"
        /\ \E i \in 1 .. j - 1 :
            /\ ResolvedAt(i, mdns_log[j].fullname)
            /\ \A k \in i + 1 .. j - 1 : ~RemovedAt(k, mdns_log[j].fullname)}

\* The one resolution of peer x, under label fullname and of no other label
\* or peer, with a removal of that label after it.
ResolvedThenRemoved(x, fullname) ==
    \E i \in 1 .. Len(mdns_log) :
        /\ ResolvedAt(i, fullname) /\ mdns_log[i].peer_id = x
        /\ \A k \in 1 .. Len(mdns_log) :
            (mdns_log[k].type = "resolved"
                /\ (mdns_log[k].fullname = fullname \/ mdns_log[k].peer_id = x)) => k = i
        /\ \E j \in i + 1 .. Len(mdns_log) : RemovedAt(j, fullname)

About(x, ev) ==
    \/ ev.type = "PeerOnline" /\ ev.peer.id = x
    \/ ev.type = "PeerOffline" /\ ev.peer_id = x

PresenceOf(x) == SelectSeq(bus, LAMBDA ev : About(x, ev))

Offlines == {i \in 1 .. Len(bus) : bus[i].type = "PeerOffline"}
Losts    == {i \in 1 .. Len(discovery_rx) : discovery_rx[i].type = "PeerLost"}

LastResolved(fullname) ==
    {i \in 1 .. Len(mdns_log) :
        /\ ResolvedAt(i, fullname)
        /\ \A k \in i + 1 .. Len(mdns_log) :
            ~ResolvedAt(k, fullname) /\ ~RemovedAt(k, fullname)}

LivePeers ==
    {mdns_log[i].peer_id : i \in UNION {LastResolved(l) : l \in Labels}}

\* C11: once the core has handled every discovery event, a peer is in
\* online_peers exactly when a label that is resolved and not removed since
\* maps to it.
C11_OnlineIffLiveLabel ==
    discovery_rx = <<>> => DOMAIN online_peers = LivePeers

\* ------------------------------------------------------------------------
\* Properties of the store (checked under SpecStore)
\* ------------------------------------------------------------------------
StoreCallIs(op) == db_calls' = db_calls + 1 /\ db_result'.op = op

\* C4: the store never holds two message rows with one identity, and a
\* save_message whose identity is already stored fails and leaves the
\* messages table (content, direction, delivered of the stored row) as it was.
C4_UniqueIdentity ==
    /\ [](\A r1, r2 \in messages : r1.id = r2.id => r1 = r2)
    /\ [][(StoreCallIs("save_message")
            /\ \E r \in messages : r.id = db_result'.msg.id)
          => (~db_result'.ok /\ messages' = messages)]_vars

C4_Witness ==
    /\ db_result.op = "save_message"
    /\ ~db_result.ok
    /\ \E r \in messages : r.id = db_result.msg.id /\ r # db_result.msg

RECURSIVE FramesOf(_)
FramesOf(msgs) == IF msgs = <<>> THEN <<>> ELSE encode(Head(msgs)) \o FramesOf(Tail(msgs))

RECURSIVE RepliesTo(_)
RepliesTo(msgs) ==
    IF msgs = <<>> THEN <<>> ELSE connection_reply(Head(msgs)) \o RepliesTo(Tail(msgs))

\* What identifies a forwarded message once the core has handled it.
MessageKey(msg) ==
    CASE msg.type = "Chat" -> <<"Chat", msg.id>>
      [] msg.type = "Ack" -> <<"Ack", msg.message_id>>
      [] OTHER -> <<msg.type, <<>>>>

EventKey(event) ==
    CASE event.type = "NewMessage" -> <<"Chat", event.message.id>>
      [] event.type = "MessageDelivered" -> <<"Ack", event.message_id>>
      [] OTHER -> <<event.type, <<>>>>

KeysOf(msgs) == [i \in 1 .. Len(msgs) |-> MessageKey(msgs[i])]

\* The messages of connection k the core was handed, in the order it was
\* handed them: those it has handled already, then those waiting in message_rx.
HandedToCore(k) ==
    LET FromK(key) == \E i \in 1 .. Len(conn_sent[k]) : MessageKey(conn_sent[k][i]) = key
        handled    == [i \in 1 .. Len(bus) |-> EventKey(bus[i])]
        waiting    == [i \in 1 .. Len(message_rx) |-> MessageKey(message_rx[i].message)]
    IN  SelectSeq(handled \o waiting, FromK)

\* The first n messages written to connection k are the ones its handler read.
ReadSoFar(k, n) ==
    /\ n \in 0 .. Len(conn_sent[k])
    /\ wire_in[k] = FramesOf(SubSeq(conn_sent[k], n + 1, Len(conn_sent[k])))

PipeReads(k) == last_read'.n = n_frames + 1 /\ last_read'.conn = k

\* C22: the frames written to one connection are read back as the same
\* messages in the same order, and the handler of the connection writes its
\* replies and forwards the messages to the core in that order: at every
\* moment the handler has read the first n messages its peer wrote, the
\* replies on the connection are the replies to those n in order, the core
\* was handed the Chat and Ack messages among them in order, and each read
\* returns message n + 1.
C22_WireOrder ==
    /\ [](\A k \in Conns : \E n \in 0 .. Len(conn_sent[k]) :
            /\ ReadSoFar(k, n)
            /\ conn_out[k] = RepliesTo(SubSeq(conn_sent[k], 1, n))
            /\ HandedToCore(k) =
                 KeysOf(SelectSeq(SubSeq(conn_sent[k], 1, n), connection_forwards)))
    /\ [][\A k \in Conns : \A n \in 0 .. Len(conn_sent[k]) :
            (PipeReads(k) /\ ReadSoFar(k, n)) =>
                /\ n < Len(conn_sent[k])
                /\ last_read'.result.kind = "Ok"
                /\ last_read'.result.msg = Some(conn_sent[k][n + 1])
                /\ ReadSoFar(k, n + 1)']_vars

C22_Witness ==
    /\ Len(conn_sent[1]) = 2
    /\ Len(conn_sent[2]) = 1
    /\ conn_sent[1][1].type = "Ack"
    /\ conn_sent[1][2].type = "Chat"
    /\ conn_sent[2][1].type = "Chat"
    /\ wire_in[1] = <<>>
    /\ wire_in[2] = <<>>
    /\ Len(bus) = 1
    /\ Len(message_rx) = 2
    /\ message_rx[1].from_addr = ConnAddr(2)
    /\ conn_out[1] = <<Ack(conn_sent[1][2].id)>>


\* ------------------------------------------------------------------------
\* C23
\* ------------------------------------------------------------------------
\* What one attempt at the i-th address of the call gives.
AttemptResult(i) ==
    send_message(fn_result.addresses[i], fn_result.message, fn_result.outcomes[i])

\* C23: send_to_any contacts the addresses strictly in list order; it returns
\* success at the first address that succeeds and contacts no later one; when
\* every address fails it has contacted them all and returns the error of the
\* last; on an empty list it returns NoAddress and contacts nothing.
C23_SendToAnyOrder ==
    CalledIs("send_to_any") =>
        LET addresses == fn_result.addresses
            attempts  == fn_result.sent.attempts
            made      == Len(attempts)
            succeeds  == {i \in 1 .. Len(addresses) : AttemptResult(i) = "Ok"}
        IN  /\ made <= Len(addresses)
            /\ \A i \in 1 .. made : attempts[i].addr = addresses[i]
            /\ \A i \in 1 .. made - 1 : AttemptResult(i) # "Ok"
            /\ succeeds # {} =>
                  /\ fn_result.sent.result = "Ok"
                  /\ made \in succeeds
            /\ (succeeds = {} /\ addresses # <<>>) =>
                  /\ made = Len(addresses)
                  /\ fn_result.sent.result = AttemptResult(Len(addresses))
            /\ addresses = <<>> =>
                  /\ made = 0
                  /\ fn_result.sent.result = "NoAddress"

C23_Witness ==
    /\ CalledIs("send_to_any")
    /\ Len(fn_result.addresses) = 3
    /\ AttemptResult(1) = "ConnectTimeout"
    /\ AttemptResult(2) = "Protocol"
    /\ AttemptResult(3) = "UnexpectedResponse"
    /\ fn_result.sent.result = "UnexpectedResponse"
    /\ Len(fn_result.sent.attempts) = 3


\* ------------------------------------------------------------------------
\* C24
\* ------------------------------------------------------------------------
\* C24: a bind removes an existing socket file only when a connection to the
\* path fails, and a bind made while a live daemon listens on the path
\* leaves that daemon's socket at the path.
C24_BindSparesLiveSocket ==
    last_bind.op = "bind" =>
        /\ last_bind.removed => ~last_bind.live
        /\ last_bind.live => last_bind.after = last_bind.before

\* The second daemon has bound while the first was listening: the path now
\* names the second daemon's socket and the first still listens, unreachable.
C24_Replaced ==
    /\ last_bind.op = "bind"
    /\ last_bind.daemon = 2
    /\ last_bind.live
    /\ last_bind.before = Some(1)
    /\ last_bind.removed
    /\ last_bind.after = Some(2)
    /\ socket_file = Some(2)
    /\ ipc_listening = {1, 2}


\* ------------------------------------------------------------------------
\* C25
\* ------------------------------------------------------------------------
EventTypes == {"PeerOnline", "PeerOffline", "NewMessage", "MessageDelivered"}

ReplyTypes == {"Ok", "PeerList", "Messages", "MessageSent", "Config", "Error"}

\* C25: the values published on the bus, and the events written to control
\* sockets, are PeerOnline, PeerOffline, NewMessage and MessageDelivered
\* only; the replies, queued or written, are Ok, PeerList, Messages,
\* MessageSent, Config and Error only; the two sets share no type, so no
\* Error is ever pushed as an event.
C25_EventsAndRepliesApart ==
    /\ EventTypes \cap ReplyTypes = {}
    /\ \A i \in 1 .. Len(bus) : bus[i].type \in EventTypes
    /\ \A c \in Clients :
        /\ \A i \in 1 .. Len(response_rx[c]) : response_rx[c][i].msg.type \in ReplyTypes
        /\ \A i \in 1 .. Len(sock_out[c]) :
            /\ sock_out[c][i].kind \in {"reply", "event"}
            /\ sock_out[c][i].kind = "reply" => sock_out[c][i].msg.type \in ReplyTypes
            /\ sock_out[c][i].kind = "event" =>
                  /\ sock_out[c][i].msg.type \in EventTypes
                  /\ sock_out[c][i].msg \in {bus[j] : j \in 1 .. Len(bus)}

C25_Witness ==
    /\ \E i \in 1 .. Len(sock_out[1]) :
        sock_out[1][i].kind = "reply" /\ sock_out[1][i].msg.type = "Error"
    /\ \E i \in 1 .. Len(sock_out[1]) :
        sock_out[1][i].kind = "event" /\ sock_out[1][i].msg.type = "PeerOnline"


\* ------------------------------------------------------------------------
\* C26
\* ------------------------------------------------------------------------
\* The records get_messages may return: those of the peer, below the bound.
Matching(peer_id, before) ==
    {r \in messages : /\ r.peer_id = peer_id
                      /\ (before # NoneOpt => r.timestamp < Unwrap(before))}

\* C26: get_messages(peer, limit, before) returns stored records of that
\* peer only, each once, newest first, at most limit of them, all with a
\* timestamp strictly below `before` when it is given; it returns limit of
\* them when that many match, all of them otherwise, and no record left out
\* is newer than a record returned.
C26_NewestWithinLimit ==
    db_result.op = "get_messages" =>
        LET ret  == db_result.ret
            rows == Matching(db_result.peer_id, db_result.before)
        IN  /\ \A i \in 1 .. Len(ret) : ret[i] \in rows
            /\ \A i, j \in 1 .. Len(ret) :
                  i < j => (ret[i] # ret[j] /\ ret[i].timestamp >= ret[j].timestamp)
            /\ Len(ret) <= db_result.limit
            /\ Len(ret) = Min(db_result.limit, Cardinality(rows))
            /\ \A r \in rows : \A i \in 1 .. Len(ret) :
                  r \notin Range(ret) => r.timestamp <= ret[i].timestamp

C26_Witness ==
    /\ db_result.op = "get_messages"
    /\ db_result.limit = 1
    /\ db_result.before = Some(3000)
    /\ Cardinality(Matching(db_result.peer_id, db_result.before)) = 2
    /\ \E r \in messages : r.peer_id = db_result.peer_id /\ r.timestamp = 3000
    /\ Len(db_result.ret) = 1
    /\ db_result.ret[1].timestamp = 2000


\* ------------------------------------------------------------------------
\* C27
\* ------------------------------------------------------------------------
\* The step in which the core handles a SetDisplayName of client 1.
RenameHandled(name) ==
    /\ ipc_rx # <<>>
    /\ Head(ipc_rx).request = SetDisplayName(name)
    /\ ipc_rx' = Tail(ipc_rx)
    /\ Len(response_rx'[1]) = Len(response_rx[1]) + 1

RenameReply == response_rx'[1][Len(response_rx'[1])].msg

\* C27: a SetDisplayName is refused as invalid exactly when the trimmed name
\* is empty or longer than 50 bytes; otherwise, whatever the length of the
\* untrimmed input, the display name becomes the trimmed name.
C27_AcceptsByTrimmedLength ==
    [][\A name \in RenameNames :
          RenameHandled(name) =>
              /\ RenameReply = Error("invalid_name")
                    <=> str_len(Trim(name)) \notin 1 .. MAX_NAME
              /\ RenameReply # Error("invalid_name") =>
                    config'.display_name = Trim(name)]_vars


\* ------------------------------------------------------------------------
\* C28
\* ------------------------------------------------------------------------
\* The step in which the core handles a SendMessage of client 1.
SendHandled ==
    /\ ipc_rx # <<>>
    /\ Head(ipc_rx).request.type = "SendMessage"
    /\ ipc_rx' = Tail(ipc_rx)
    /\ Len(response_rx'[1]) = Len(response_rx[1]) + 1

SendReply == response_rx'[1][Len(response_rx'[1])].msg

\* Nothing saved, no connection attempted, nothing published.
NoSideEffects ==
    /\ messages' = messages
    /\ peers' = peers
    /\ last_send' = last_send
    /\ bus' = bus

InvalidContent(content) ==
    \/ \A i \in 1 .. Len(content) : IsWhitespace(content[i])
    \/ str_len(content) > 10000

NoKnownAddress(peer_id) ==
    /\ peer_id \in DOMAIN online_peers => online_peers[peer_id].addresses = <<>>
    /\ peer_id \notin DOMAIN online_peers =>
          \A p \in get_peers(peers) : p.id = peer_id => p.addresses = <<>>

Reachable(info) ==
    /\ info.id # config.peer_id
    /\ info.addresses # <<>>
    /\ \A i \in 1 .. Len(info.addresses) : ~is_ipv6_link_local(info.addresses[i][1])

\* C29: every record in the online set is filed under its own identity, which
\* is not the local one, and has at least one address; so has every PeerFound
\* the discovery adapter has emitted and the core has yet to handle.
C29_OnlineHaveAddress ==
    /\ \A id \in DOMAIN online_peers :
        /\ online_peers[id].id = id
        /\ Reachable(online_peers[id])
    /\ \A i \in 1 .. Len(discovery_rx) :
        discovery_rx[i].type = "PeerFound" => Reachable(discovery_rx[i].peer)

C29_Witness ==
    /\ DOMAIN online_peers = {"bbb"}
    /\ online_peers["bbb"].addresses = <<<<"10.0.0.2", Port>>>>
    /\ Len(mdns_log) = 3
    /\ mdns_log[1].type = "ignored"
    /\ mdns_log[2].type = "ignored"
    /\ mdns_log[3].type = "resolved"
    /\ discovery_rx = <<>>


\* ------------------------------------------------------------------------
\* C30
\* ------------------------------------------------------------------------
\* The record handle_send_message saves for the request, under id.
SentRecordOf(request, id) ==
    [id : {id}, peer_id : {request.peer_id}, direction : {"sent"},
     content : {request.content}, timestamp : Timestamps, delivered : {FALSE}]

\* C30: whenever handle_send_message calls send_to_any, the store already
\* holds the record of the message, as sent and not delivered, under the id
\* the Chat frame carries; a request answered MessageSent has made that call;
\* and a request answered Error db_error has made no connection attempt and
\* left the store as it was.
C30_SavedBeforeSent ==
    [][SendHandled =>
          LET request == Head(ipc_rx).request IN
          /\ SendStep =>
                /\ Cardinality(last_send'.stored) = 1
                /\ last_send'.stored \subseteq SentRecordOf(request, last_send'.id)
                /\ \A r \in messages : r.id # last_send'.id
          /\ SendReply.type = "MessageSent" =>
                (SendStep /\ SendReply.message_id = last_send'.id)
          /\ SendReply = Error("db_error") =>
                (~SendStep /\ last_send' = last_send /\ messages' = messages)]_vars

C30_Witness ==
    /\ RepliesOf(1) = <<Reply(1, Error("db_error")), Reply(2, MessageSent(1))>>
    /\ last_send.n = 1
    /\ last_send.id = 1
    /\ last_send.result = "AckTimeout"
    /\ last_send.stored = messages
    /\ Cardinality(messages) = 1

\* ------------------------------------------------------------------------
\* Properties of the selection loop (checked under SpecRun)
\* ------------------------------------------------------------------------
\* C31: once a shutdown signal has been sent, the core's selection loop
\* eventually exits, whatever is pending or keeps arriving; and after it has
\* exited the core writes nothing to the store and publishes no event.
C31_ShutdownExits ==
    /\ (shutdown_rx > 0) ~> (core_pc = "exited")
    /\ [][core_pc = "exited" => UNCHANGED <<peers, messages, bus>>]_vars

\* C32: a control client that keeps sending requests and does not read
\* cannot stall the core: the core never waits for ever to hand a reply to
\* that client's reply channel, so that it comes back to its selection and
\* handles what is pending.
C32_CoreNeverStalls == (core_pc = "sending") ~> (core_pc = "select")

\* ------------------------------------------------------------------------
\* Properties of two daemons sending to each other (checked under SpecDuel)
\* ------------------------------------------------------------------------
WaitsForAck(d) == duel_core[d].pc = "wait_ack"
Answered(d)    == Len(duel_core[d].results) = duel_core[d].requests

\* C33: two daemons that handle a SendMessage for each other at the same
\* time both complete their sends. A core that waits for its Ack has the Ack
\* to read, or the other daemon's accept_loop or handler can take a step,
\* wherever that daemon's core is; a reply read back makes the send Ok; and
\* every wait ends and every request is answered.
C33_NoCircularWait ==
    /\ [](\A d \in Duellists :
            WaitsForAck(d) =>
                \/ duel_conn[Other(d)].tx = <<Ack(duel_core[d].sends)>>
                \/ ENABLED DuelServer(Other(d)))
    /\ [][\A d \in Duellists :
            (WaitsForAck(d) /\ ~WaitsForAck(d)' /\ duel_conn[Other(d)].tx # <<>>)
                => duel_core'[d].results[Len(duel_core'[d].results)] = "Ok"]_vars
    /\ \A d \in Duellists : WaitsForAck(d) ~> ~WaitsForAck(d)
    /\ \A d \in Duellists : []<>Answered(d)

\* Both cores wait for their Ack at once, each with the other's Chat in its
\* message_rx unhandled, and each has its Ack to read.
C33_Witness ==
    \A d \in Duellists :
        /\ WaitsForAck(d)
        /\ duel_conn[Other(d)].tx = <<Ack(duel_core[d].sends)>>
        /\ \E i \in 1 .. Len(duel_rx[d]) : duel_rx[d][i].message.type = "Chat"

\* ------------------------------------------------------------------------
\* Properties of the reading of request lines (checked under SpecReadLine)
\* ------------------------------------------------------------------------
\* The replies written to client c for its n-th line.
RepliesToLine(c, n) ==
    SelectSeq(sock_out[c], LAMBDA e : e.kind = "reply" /\ e.req = n)

\* C34: for every well-formed request line a control client writes while it
\* stays connected, exactly one reply is eventually written to it, whatever
\* events and replies are written to the connection meanwhile: a line is
\* answered at most once, it is not refused as undecodable (the request is
\* not lost on its way to the core), and it is answered in the end.
C34_OneReplyPerLine ==
    /\ [](\A c \in Clients : \A n \in 1 .. Len(client_wrote[c]) :
            /\ Len(RepliesToLine(c, n)) <= 1
            /\ decode_request_ok(client_wrote[c][n].line)
                  => \A i \in 1 .. Len(RepliesToLine(c, n)) :
                         RepliesToLine(c, n)[i].msg # Error("invalid_request"))
    /\ \A c \in Clients :
            []<>(\A n \in 1 .. Len(client_wrote[c]) :
                    client_wrote[c][n].done => Len(RepliesToLine(c, n)) = 1)

\* ------------------------------------------------------------------------
\* Properties of the core's handling of inbound frames (checked under Spec)
\* ------------------------------------------------------------------------
\* The core takes the frame at the head of message_rx in this step.
CoreTakes(type) ==
    /\ message_rx # <<>>
    /\ message_rx' = Tail(message_rx)
    /\ Head(message_rx).message.type = type

DeliveredEvents(b, id) == SelectSeq(b, LAMBDA e : e = MessageDelivered(id))

\* C35: when the core receives an inbound Ack{message_id} it publishes
\* MessageDelivered{message_id} exactly once for that Ack, and nothing else,
\* whether or not a stored record has that id and whether or not that record
\* was delivered already.
C35_AckPublishesOnce ==
    [][CoreTakes("Ack") =>
            bus' = Append(bus, MessageDelivered(Head(message_rx).message.message_id))]_vars

\* Two Acks of id 1 were handled, the first with no record of that id in the
\* store, the second with the record of a received Chat, delivered already:
\* each published its event.
C35_Witness ==
    /\ Len(bus) = 3
    /\ bus[1] = MessageDelivered(1)
    /\ bus[2].type = "NewMessage"
    /\ bus[3] = MessageDelivered(1)
    /\ \E r \in messages : r.id = 1 /\ r.delivered

\* The save of the Chat at the head of message_rx fails: a record has its id.
SaveFails ==
    \E r \in messages : r.id = Head(message_rx).message.id

\* C36: when saving an inbound Chat to the store fails, the core still
\* publishes the NewMessage event for that Chat (the store staying as it
\* was), and goes on to handle later events: whenever message_rx holds a
\* frame the core can take it.
C36_FailedSaveStillPublishes ==
    /\ [][CoreTakes("Chat") =>
            /\ bus' = Append(bus, NewMessage(received_record(Head(message_rx).message)))
            /\ SaveFails => messages' = messages]_vars
    /\ [](message_rx # <<>> => ENABLED CoreIncomingStep)

\* The same Chat came twice, the second save failing, and an Ack after it:
\* the store holds one record and the bus the two events and then the Ack's.
C36_Witness ==
    /\ Len(bus) = 3
    /\ bus[1].type = "NewMessage"
    /\ bus[2] = bus[1]
    /\ bus[3] = MessageDelivered(1)
    /\ messages = {bus[1].message}

\* ------------------------------------------------------------------------
\* Properties of the store under the core (checked under SpecStrangers)
\* ------------------------------------------------------------------------
\* Every stored message's peer_id names a stored peer.
MessagesReferToPeers == \A r \in messages : r.peer_id \in DOMAIN peers

\* The core takes a Chat whose sender has no peer record.
CoreTakesStranger ==
    /\ CoreTakes("Chat")
    /\ Head(message_rx).message.sender_id \notin DOMAIN peers

C38_ErrorKeepsName ==
    /\ [][\A name \in RenameNames :
            (RenameHandled(name) /\ RenameReply.type = "Error") =>
                config'.display_name = config.display_name]_vars
    /\ [][config'.peer_id = config.peer_id]_vars

\* ------------------------------------------------------------------------
\* Properties of the absence of retries (checked under Spec)
\* ------------------------------------------------------------------------
\* The step in which the core handles a SendMessage and dials the peer.
DialsPeer ==
    /\ ipc_rx # <<>>
    /\ Head(ipc_rx).request.type = "SendMessage"
    /\ ipc_rx' = Tail(ipc_rx)
    /\ last_send'.n = last_send.n + 1

\* C39: no retry is scheduled. Chat frames are written only in the step that
\* handles a SendMessage, for the identity that step creates, at most once
\* for each address of the peer, and the reply is queued in that same step;
\* when the send failed the record is stored undelivered; and an undelivered
\* sent record becomes delivered only in a step in which the core takes an
\* inbound Ack carrying its id.
C39_NoRetry ==
    /\ [][last_send' # last_send =>
            LET addresses == send_addresses(online_peers, peers, Head(ipc_rx).request.peer_id)
                attempts  == last_send'.attempts
                client    == Head(ipc_rx).client
            IN  /\ DialsPeer
                /\ \A r \in messages : r.id # last_send'.id
                /\ Len(attempts) <= Len(addresses)
                /\ \A i \in DOMAIN attempts : attempts[i].addr = addresses[i]
                /\ \A i, j \in DOMAIN attempts : i # j => attempts[i].addr # attempts[j].addr
                /\ ipc_open[client] =>
                      /\ Len(response_rx'[client]) = Len(response_rx[client]) + 1
                      /\ response_rx'[client][Len(response_rx'[client])].msg
                            = MessageSent(last_send'.id)
                /\ last_send'.result # "Ok" =>
                      \E r \in messages' : r.id = last_send'.id /\ ~r.delivered]_vars
    /\ [][\A r \in messages :
            (r.direction = "sent" /\ ~r.delivered /\ r \notin messages') =>
                /\ CoreTakes("Ack")
                /\ Head(message_rx).message.message_id = r.id]_vars

\* A send that failed at both addresses of the peer has been answered and
\* the reply written to the client; its record is stored undelivered.
C39_Witness ==
    /\ last_send.n = 1
    /\ last_send.result # "Ok"
    /\ Len(last_send.attempts) = 2
    /\ \E i \in DOMAIN sock_out[1] : sock_out[1][i].msg = MessageSent(last_send.id)
    /\ \E r \in messages : r.id = last_send.id /\ r.direction = "sent" /\ ~r.delivered

\* ------------------------------------------------------------------------
\* Properties of the terminal client (checked under SpecTui)
\* ------------------------------------------------------------------------
\* The client takes msg from its socket.
TuiReceives(msg) ==
    /\ tui_client.read < Len(sock_out[1])
    /\ tui_client'.read = tui_client.read + 1
    /\ sock_out[1][tui_client.read + 1].msg = msg

\* What the client shows for a send of its own whose daemon identity is id:
\* the copy it made when sending, or, once a fetched history has replaced
\* that copy, the daemon's record.
LocalCopies(app, send, id) ==
    LET shown == UNION {Range(app.messages[p]) : p \in PeerIds}
        own   == {r \in shown : r.id = send.local /\ r.direction = "sent"}
    IN  IF own # {} THEN own ELSE {r \in shown : r.id = id}

\* C40: when the client receives MessageDelivered{id} and id is the identity
\* the daemon returned in MessageSent, which the client has received, for a
\* message the client sent, the client's copy of that message is delivered
\* afterwards.
C40_DeliveredShown ==
    [][\A id \in MsgIds :
          TuiReceives(MessageDelivered(id)) =>
              \A k \in 1 .. Len(tui_client.sends) :
                  (\E i \in 1 .. tui_client.read :
                        sock_out[1][i] = Reply(tui_client.sends[k].req, MessageSent(id)))
                  => \A r \in LocalCopies(tui_app', tui_client.sends[k], id) :
                        r.delivered]_vars

====
